---- MODULE Spec2Model ----
(***************************************************************************)
(* smart-insights: the ask pipeline of the backend.                        *)
(*                                                                         *)
(* POST /assistant/ask stores an in_progress response and launches one     *)
(* goroutine per accepted request.  The goroutine takes a slot of the      *)
(* buffered channel orchestratorPool, loads the LLM configuration, builds  *)
(* an Orchestrator and calls Run, which writes its progress into the       *)
(* stored response through a ResponseAppender.                             *)
(*                                                                         *)
(* A text (an LLM completion, a query, an update text) is a sequence of    *)
(* symbols: the delimiters "<sql>", "</sql>", "<markdown>", "</markdown>", *)
(* the blank " " and single characters (longer strings stand for non-blank *)
(* content that no function inspects).  Timestamps of updates are not      *)
(* modelled.  The uuid of a response is the number of the request that     *)
(* created it.  The assistant_responses store answers every call of the    *)
(* background task (MemoryStorage never fails; the I/O errors of the       *)
(* PostgreSQL store are modelled for the handler's first save and for the  *)
(* read of GET /assistant/ask/{id}).                                       *)
(*                                                                         *)
(* Spec and FairSpec are the pipeline under concurrent requests.           *)
(* PromptSpec calls ExtractResponse and ValidateQuery on texts, and        *)
(* StoreSpec calls the storage (database and LLM configurations,           *)
(* responses), the ResponseAppender, the read handler and HandleDatabases  *)
(* in any order; the variable last holds the last such call with its       *)
(* arguments and results.  AppenderSpec follows goroutines through the     *)
(* load and the save of their ResponseAppender calls, and RegistrySpec     *)
(* follows orchestrations on the source Registry pool by pool, where the   *)
(* pipeline follows it by configuration name.  ProviderSpec follows the    *)
(* resolution of the LLM provider Provider by Provider over llm_configs    *)
(* rows created in any order, where the pipeline resolves over the fixed   *)
(* rows of StoredLLMConfigs.                                               *)
(***************************************************************************)
EXTENDS Integers, Sequences, FiniteSets, TLC

\* Number of POST /assistant/ask requests of a run.
MaxRequests == 2

\* Capacity of the orchestratorPool channel (10 in the server wiring).
MaxConcurrentOrchestrations == 1

Requests == 1..MaxRequests

Question == "Show me the top 5 products by sales volume"

\* The database configuration names saved through POST /databases; a request
\* can also carry "ghost_db", which is never saved.
StorableDbNames == {"sales_db"}

\* storage.ErrConfigNotFound and storage.ErrResponseNotFound.
ErrConfigNotFound == "database configuration not found"
ErrResponseNotFound == "assistant response not found"

\* The llm_configs content: per provider the stored configurations, newest
\* first (GetLLMConfigs orders by created_at DESC).  CreateLLMConfig does
\* not run the struct validator, so a configuration with an empty api_key
\* can be stored.
StoredLLMConfigs ==
  [p \in {"openai", "anthropic", "gemini", "bedrock"} |->
     CASE p = "openai" -> << [name |-> "main", apiKey |-> "sk"],
                             [name |-> "weak", apiKey |-> ""] >>
       [] p = "gemini" -> << [name |-> "g1", apiKey |-> "sk"] >>
       [] OTHER -> << >>]

NoConfig == [name |-> "", apiKey |-> ""]

\* The accepted requests of the model: one that can run to the end, one per
\* resolution failure.
AskRequests ==
  { [db |-> "sales_db", provider |-> "openai", config |-> "main"],
    [db |-> "ghost_db", provider |-> "openai", config |-> "main"],
    [db |-> "sales_db", provider |-> "openai", config |-> "weak"],
    [db |-> "sales_db", provider |-> "openai", config |-> "absent"],
    [db |-> "sales_db", provider |-> "gemini", config |-> "g1"] }

----------------------------------------------------------------------------
\* Prompt Builder: ExtractResponse.

StartTag(tag) == IF tag = "sql" THEN "<sql>" ELSE "<markdown>"
EndTag(tag) == IF tag = "sql" THEN "</sql>" ELSE "</markdown>"

\* strings.Index over tokens: position (from 0) of the first occurrence, -1
\* when there is none.
Index(s, tok) ==
  IF \E i \in 1..Len(s) : s[i] = tok
  THEN (CHOOSE i \in 1..Len(s) :
          s[i] = tok /\ \A j \in 1..(i - 1) : s[j] # tok) - 1
  ELSE -1

RECURSIVE TrimLeft(_)
TrimLeft(s) == IF s # << >> /\ Head(s) = " " THEN TrimLeft(Tail(s)) ELSE s

RECURSIVE TrimRight(_)
TrimRight(s) ==
  IF s # << >> /\ s[Len(s)] = " " THEN TrimRight(SubSeq(s, 1, Len(s) - 1)) ELSE s

TrimSpace(s) == TrimRight(TrimLeft(s))

\* ExtractResponse(tag, response).  The slice response[lo:hi] faults (slice
\* bounds out of range) when lo > hi, which is the case when the first
\* closing delimiter precedes the first opening one.
ExtractResponse(tag, response) ==
  LET startIndex == Index(response, StartTag(tag))
      endIndex == Index(response, EndTag(tag))
  IN IF startIndex = -1 \/ endIndex = -1
     THEN [panic |-> FALSE, value |-> << >>]
     ELSE IF startIndex + 1 > endIndex
          THEN [panic |-> TRUE, value |-> << >>]
          ELSE [panic |-> FALSE,
                value |-> TrimSpace(SubSeq(response, startIndex + 2, endIndex))]

----------------------------------------------------------------------------
\* Prompt Builder: ValidateQuery.  A query is a sequence of characters.

UpperCase == << "A", "C", "D", "E", "I", "L", "P", "R", "S", "T", "U" >>
LowerCase == << "a", "c", "d", "e", "i", "l", "p", "r", "s", "t", "u" >>

\* strings.ToLower.
ToLower(s) ==
  [i \in 1..Len(s) |->
     IF \E k \in 1..Len(UpperCase) : UpperCase[k] = s[i]
     THEN LowerCase[CHOOSE k \in 1..Len(UpperCase) : UpperCase[k] = s[i]]
     ELSE s[i]]

\* strings.HasPrefix.
HasPrefix(s, prefix) ==
  Len(s) >= Len(prefix) /\ SubSeq(s, 1, Len(prefix)) = prefix

\* strings.Contains.
StringsContains(s, substr) ==
  \E i \in 0..(Len(s) - Len(substr)) : SubSeq(s, i + 1, i + Len(substr)) = substr

dangerousKeywords ==
  << << "d", "r", "o", "p" >>,
     << "t", "r", "u", "n", "c", "a", "t", "e" >>,
     << "d", "e", "l", "e", "t", "e" >>,
     << "u", "p", "d", "a", "t", "e" >>,
     << "i", "n", "s", "e", "r", "t" >>,
     << "a", "l", "t", "e", "r" >>,
     << "c", "r", "e", "a", "t", "e" >> >>

Select == << "s", "e", "l", "e", "c", "t" >>

\* Mutant: the prefix is checked before the keywords.
ValidateQueryPrefixFirst(query) ==
  LET q == ToLower(TrimSpace(query))
      found == { k \in 1..Len(dangerousKeywords) :
                   StringsContains(q, dangerousKeywords[k]) }
  IN IF ~HasPrefix(q, Select)
     THEN [ok |-> FALSE, err |-> "query must start with SELECT", keyword |-> << >>]
     ELSE IF found # {}
          THEN [ok |-> FALSE, err |-> "query contains forbidden keyword",
                keyword |-> dangerousKeywords[CHOOSE k \in found :
                                                \A j \in found : k <= j]]
          ELSE [ok |-> TRUE, err |-> "", keyword |-> << >>]

\* ValidateQuery(query): the first keyword of the list found in the lowered,
\* trimmed text is reported; otherwise the text must start with "select".
ValidateQuery(query) ==
  LET q == ToLower(TrimSpace(query))
      found == { k \in 1..Len(dangerousKeywords) :
                   StringsContains(q, dangerousKeywords[k]) }
  IN IF found # {}
     THEN [ok |-> FALSE, err |-> "query contains forbidden keyword",
           keyword |-> dangerousKeywords[CHOOSE k \in found :
                                           \A j \in found : k <= j]]
     ELSE IF ~HasPrefix(q, Select)
          THEN [ok |-> FALSE, err |-> "query must start with SELECT",
                keyword |-> << >>]
          ELSE [ok |-> TRUE, err |-> "", keyword |-> << >>]

----------------------------------------------------------------------------
\* The stubbed LLM provider.

\* The contents a completion can carry between the delimiters: for sql a
\* read-only query and a destructive one ("select 1", "delete from t"), for
\* markdown a report.
Payloads(tag) ==
  IF tag = "sql"
  THEN { Select \o << " ", "1" >>,
         << "d", "e", "l", "e", "t", "e", " ", "f", "r", "o", "m", " ", "t" >> }
  ELSE { << "x" >> }

\* The completions the stubbed provider can return for a tag: the empty
\* text, a pair with nothing inside, the delimiters in the wrong order, and
\* a pair around each payload.
Completions(tag) ==
  { << >>,
    << StartTag(tag), EndTag(tag) >>,
    << EndTag(tag), " ", StartTag(tag), "x" >> }
  \cup { << StartTag(tag), " " >> \o p \o << " ", EndTag(tag) >> : p \in Payloads(tag) }

----------------------------------------------------------------------------
\* Response store (storage.Storage) and ResponseAppender.

Update(kind, text) == [text |-> text, type |-> kind]

NoResponse ==
  [uuid |-> 0, question |-> "", success |-> FALSE, status |-> "", response |-> << >>]

\* Mutant: a save under a uuid that has an entry keeps the entry.
SaveAssistantResponseKeepsFirst(st, r) ==
  [u \in (DOMAIN st) \cup {r.uuid} |-> IF u \in DOMAIN st THEN st[u] ELSE r]

\* Storage.SaveAssistantResponse (MemoryStorage: map assignment;
\* PostgresStorage: INSERT ... ON CONFLICT (uuid) DO UPDATE).
SaveAssistantResponse(st, r) ==
  [u \in (DOMAIN st) \cup {r.uuid} |-> IF u = r.uuid THEN r ELSE st[u]]

\* Storage.GetAssistantHistories: the list of the stored responses, in the
\* order of the map iteration.
GetAssistantHistories(st) ==
  CHOOSE h \in [1..Cardinality(DOMAIN st) -> { st[u] : u \in DOMAIN st }] :
    \A u \in DOMAIN st : \E i \in DOMAIN h : h[i] = st[u]

LoadAssistantResponse(st, uuid) ==
  IF uuid \in DOMAIN st
  THEN [err |-> "", response |-> st[uuid]]
  ELSE [err |-> ErrResponseNotFound, response |-> NoResponse]

\* Mutant: an update for an id without entry creates the entry.
AppendResponseCreates(st, uuid, updateType, text) ==
  LET l == LoadAssistantResponse(st, uuid)
  IN SaveAssistantResponse(st,
       [uuid |-> uuid, question |-> l.response.question,
        success |-> l.response.success, status |-> l.response.status,
        response |-> Append(l.response.response, Update(updateType, text))])

AppendResponse(st, uuid, updateType, text) ==
  LET l == LoadAssistantResponse(st, uuid)
  IN IF l.err # ""
     THEN st
     ELSE SaveAssistantResponse(st,
            [l.response EXCEPT !.response = Append(@, Update(updateType, text))])

\* Mutant: the status is stored in a fresh response value, as
\* handleOrchestrationError does, instead of in the loaded one.
UpdateStatusFresh(st, uuid, status, success) ==
  IF uuid \notin DOMAIN st
  THEN st
  ELSE SaveAssistantResponse(st,
         [uuid |-> uuid, question |-> "", success |-> success, status |-> status,
          response |-> << >>])

\* Mutant: the status is written and the success flag is left as it was.
UpdateStatusKeepsSuccess(st, uuid, status, success) ==
  LET l == LoadAssistantResponse(st, uuid)
  IN IF l.err # ""
     THEN st
     ELSE SaveAssistantResponse(st, [l.response EXCEPT !.status = status])

UpdateStatus(st, uuid, status, success) ==
  LET l == LoadAssistantResponse(st, uuid)
  IN IF l.err # ""
     THEN st
     ELSE SaveAssistantResponse(st,
            [l.response EXCEPT !.status = status, !.success = success])

\* Mutant: the failure is stored without an error update.
handleOrchestrationErrorSilent(st, uuid, message, cause) ==
  SaveAssistantResponse(st,
    [uuid |-> uuid, question |-> "", success |-> FALSE, status |-> "failed",
     response |-> << >>])

\* The error AppendResponse and UpdateStatus return: the load error, wrapped
\* (<< >>: nil).
AppenderError(st, uuid) ==
  IF LoadAssistantResponse(st, uuid).err # ""
  THEN << "failed to load response", LoadAssistantResponse(st, uuid).err >>
  ELSE << >>

\* ResponseAppender, step by step.  A call holds ra.mu from its first
\* statement to its return; between the load and the save it works on the
\* response it loaded.

\* An AppendResponse (text) or UpdateStatus (status) call for a uuid.
AppenderCall(op, uuid, text, status) ==
  [op |-> op, uuid |-> uuid, text |-> text, status |-> status]

NoAppenderCall == AppenderCall("none", 0, << >>, "")

\* A goroutine that is not inside a call of its appender ra.
Idle(ra) ==
  [pc |-> "idle", ra |-> ra, call |-> NoAppenderCall, response |-> NoResponse]

\* NewResponseAppender: the mutex is a field of the appender, and every Run
\* makes an appender of its own.
NewResponseAppender(t) == t

\* The response a call saves, from the one it loaded.
Modified(call, response) ==
  IF call.op = "AppendResponse"
  THEN [response EXCEPT !.response = Append(@, Update("step_output", call.text))]
  ELSE [response EXCEPT !.status = call.status,
                        !.success = (call.status = "completed")]

\* The id of a GET /assistant/ask/{id} path: a uuid (key) or a text that
\* uuid.Parse rejects.
PathId(wellFormed, key) == [wellFormed |-> wellFormed, key |-> key]

isValidUUID(id) == id.wellFormed

\* Mutant: the format of the id is not checked.
GetAssistantResponseAnyFormat(st, id, readOk) ==
  IF ~readOk
  THEN [code |-> 500, body |-> NoResponse]
  ELSE IF LoadAssistantResponse(st, id.key).err = ErrResponseNotFound
       THEN [code |-> 404, body |-> NoResponse]
       ELSE [code |-> 200, body |-> LoadAssistantResponse(st, id.key).response]

\* AssistantManager.GetAssistantResponse: status code and body.  readOk is
\* FALSE when LoadAssistantResponse fails with an error other than
\* ErrResponseNotFound.
GetAssistantResponse(st, id, readOk) ==
  IF ~isValidUUID(id)
  THEN [code |-> 400, body |-> NoResponse]
  ELSE IF ~readOk
       THEN [code |-> 500, body |-> NoResponse]
       ELSE IF LoadAssistantResponse(st, id.key).err = ErrResponseNotFound
            THEN [code |-> 404, body |-> NoResponse]
            ELSE [code |-> 200,
                  body |-> LoadAssistantResponse(st, id.key).response]

\* AssistantManager.handleOrchestrationError: saves a fresh response value
\* under the uuid.
handleOrchestrationError(st, uuid, message, cause) ==
  SaveAssistantResponse(st,
    [uuid |-> uuid, question |-> "", success |-> FALSE, status |-> "failed",
     response |-> << Update("error", << message >> \o cause) >>])

----------------------------------------------------------------------------
\* Configuration store, LLM provider resolution, source registry.

Find(configs, name) ==
  IF \E i \in 1..Len(configs) : configs[i].name = name
  THEN configs[CHOOSE i \in 1..Len(configs) : configs[i].name = name]
  ELSE NoConfig

\* Storage.LoadLLMConfig.  PostgresStorage returns a *models.LLMConfig for
\* provider "openai" and an error for the other providers that have the row;
\* MemoryStorage returns the stored models.LLMConfig value (pointer FALSE).
LoadLLMConfig(be, provider, configName) ==
  LET cfg == Find(StoredLLMConfigs[provider], configName)
  IN IF cfg = NoConfig
     THEN [err |-> ErrConfigNotFound, pointer |-> FALSE, config |-> NoConfig]
     ELSE IF be = "memory"
          THEN [err |-> "", pointer |-> FALSE, config |-> cfg]
          ELSE IF provider = "openai"
               THEN [err |-> "", pointer |-> TRUE, config |-> cfg]
               ELSE [err |-> "unsupported provider", pointer |-> FALSE,
                     config |-> NoConfig]

\* openai Config.Validate (the model field is not modelled).
Validate(cfg) ==
  IF cfg.name = "" THEN "name is required"
  ELSE IF cfg.apiKey = "" THEN "API key is required"
  ELSE ""

\* llmregistry.Registry.GetProvider: the error chain, << >> on success.  It
\* initializes the new provider with the first stored configuration of the
\* provider kind.
GetProvider(name) ==
  LET configs == StoredLLMConfigs[name]
  IN IF Len(configs) = 0
     THEN << "no configuration found for provider" >>
     ELSE IF name # "openai"
          THEN << "failed to create provider", "unsupported provider type" >>
          ELSE IF Validate(configs[1]) # ""
               THEN << "failed to initialize provider", "invalid config",
                       Validate(configs[1]) >>
               ELSE << >>

\* orchestrator.NewOrchestrator: the error chain, << >> on success.
NewOrchestrator(provider, llmConfig) ==
  IF GetProvider(provider) # << >>
  THEN << "failed to get LLM provider" >> \o GetProvider(provider)
  ELSE IF provider # "openai"
       THEN << "unsupported LLM provider" >>
       ELSE IF Validate(llmConfig) # ""
            THEN << "failed to initialize LLM provider", "invalid config",
                    Validate(llmConfig) >>
            ELSE << >>

\* A Provider before Initialize: config and client are nil.
NewProvider == [config |-> NoConfig]

\* Mutant: the factory hands out one Provider for all callers.
CreateProviderShared(provs, name) ==
  IF name # "openai"
  THEN [providers |-> provs, id |-> 0, err |-> << "unsupported provider type" >>]
  ELSE IF provs # << >>
       THEN [providers |-> provs, id |-> 1, err |-> << >>]
       ELSE [providers |-> << NewProvider >>, id |-> 1, err |-> << >>]

\* factory.CreateProvider: openai.NewProvider() returns &Provider{}, a
\* Provider of its own for every call; provs are the Providers made so far.
CreateProvider(provs, name) ==
  IF name # "openai"
  THEN [providers |-> provs, id |-> 0, err |-> << "unsupported provider type" >>]
  ELSE [providers |-> Append(provs, NewProvider), id |-> Len(provs) + 1,
        err |-> << >>]

\* openai Provider.Initialize on the Provider id: a config that fails
\* Validate leaves the Provider as it was.
Initialize(provs, id, cfg) ==
  IF Validate(cfg) # ""
  THEN [providers |-> provs, err |-> << "invalid config", Validate(cfg) >>]
  ELSE [providers |-> [provs EXCEPT ![id] = [config |-> cfg]], err |-> << >>]

\* llmregistry.Registry.GetProvider on the Providers made so far; configs is
\* what storage.GetLLMConfigs returned for the provider kind.  The registry
\* keeps no Provider: it makes one and initializes it with configs[0].
RegistryGetProvider(provs, configs, name) ==
  IF Len(configs) = 0
  THEN [providers |-> provs, id |-> 0,
        err |-> << "no configuration found for provider" >>]
  ELSE LET made == CreateProvider(provs, name)
       IN IF made.err # << >>
          THEN [providers |-> provs, id |-> 0,
                err |-> << "failed to create provider" >> \o made.err]
          ELSE LET init == Initialize(made.providers, made.id, configs[1])
               IN IF init.err # << >>
                  THEN [providers |-> init.providers, id |-> 0,
                        err |-> << "failed to initialize provider" >> \o init.err]
                  ELSE [providers |-> init.providers, id |-> made.id,
                        err |-> << >>]

\* A models.DatabaseConfig: its name, its host (standing for the other
\* required fields) and its options.
DatabaseConfig(name, host, options) ==
  [name |-> name, host |-> host, options |-> options]

\* Values of the Options member (interface{}): its dynamic type and its
\* content.  validateTypeOptions replaces the options of a request by the
\* typed struct of the database type.
NilOptions == << "nil", "" >>

PostgresOptions == << "models.PostgresConfig", "ssl_mode=disable" >>

NoDatabaseConfig == DatabaseConfig("", "", NilOptions)

ErrConfigExists == "database configuration already exists"

\* json.Marshal of a models.DatabaseConfig: the list of its members; options
\* is tagged omitempty and is written as a JSON object, which carries the
\* content of the value and not its Go type.
Marshal(config) ==
  << << "name", config.name >>, << "host", config.host >> >>
  \o (IF config.options = NilOptions THEN << >>
      ELSE << << "options", config.options[2] >> >>)

\* The value of a member of a JSON object, absent when it has none.
Member(doc, key, absent) ==
  IF \E i \in 1..Len(doc) : doc[i][1] = key
  THEN doc[CHOOSE i \in 1..Len(doc) : doc[i][1] = key][2]
  ELSE absent

\* json.Unmarshal into a models.DatabaseConfig: a JSON object read into an
\* interface{} member becomes a map[string]interface{}.
Unmarshal(doc) ==
  DatabaseConfig(Member(doc, "name", ""), Member(doc, "host", ""),
                 IF Member(doc, "options", "") = "" THEN NilOptions
                 ELSE << "map[string]interface{}", Member(doc, "options", "") >>)

\* What a storage keeps for a configuration: MemoryStorage the value,
\* PostgresStorage the JSON document in the config column.
Stored(be, config) == IF be = "memory" THEN config ELSE Marshal(config)

\* Storage.SaveDatabaseConfig (MemoryStorage: map test and assignment;
\* PostgresStorage: INSERT ... ON CONFLICT (name) DO NOTHING).
StorageSaveDatabaseConfig(be, cfgs, config) ==
  IF config.name \in DOMAIN cfgs
  THEN [configs |-> cfgs, err |-> ErrConfigExists]
  ELSE [configs |-> [n \in (DOMAIN cfgs) \cup {config.name} |->
                       IF n = config.name THEN Stored(be, config) ELSE cfgs[n]],
        err |-> ""]

\* Storage.LoadDatabaseConfig.
StorageLoadDatabaseConfig(be, cfgs, configName) ==
  IF configName \notin DOMAIN cfgs
  THEN [config |-> NoDatabaseConfig, err |-> ErrConfigNotFound]
  ELSE [config |-> IF be = "memory" THEN cfgs[configName]
                   ELSE Unmarshal(cfgs[configName]),
        err |-> ""]

\* Storage.DeleteDatabaseConfig.
StorageDeleteDatabaseConfig(be, cfgs, configName) ==
  IF configName \notin DOMAIN cfgs
  THEN [configs |-> cfgs, err |-> ErrConfigNotFound]
  ELSE [configs |-> [n \in (DOMAIN cfgs) \ {configName} |-> cfgs[n]], err |-> ""]

\* The body of a POST /databases: malformed JSON, or the JSON of a
\* models.DatabaseConfig with its type ("" when the member is missing).
DatabaseBody(malformed, type, config) ==
  [malformed |-> malformed, type |-> type, config |-> config]

NoBody == DatabaseBody(TRUE, "", NoDatabaseConfig)

\* DatabaseManager.validateTypeOptions: the options of the request are
\* replaced by the typed options of the database type.
validateTypeOptions(config) ==
  IF config.options = NilOptions
  THEN config
  ELSE [config EXCEPT !.options = << PostgresOptions[1], @[2] >>]

\* DatabaseManager.CreateDatabaseConfig: status code and store.
DatabaseManagerCreateDatabaseConfig(be, cfgs, body) ==
  IF body.malformed
  THEN [code |-> 400, configs |-> cfgs]
  ELSE IF \/ body.config.name = ""
          \/ body.config.host = ""
          \/ body.type \notin {"postgresql", "mysql", "mongodb"}
       THEN [code |-> 400, configs |-> cfgs]
       ELSE LET r == StorageSaveDatabaseConfig(be, cfgs,
                                              validateTypeOptions(body.config))
            IN IF r.err = ErrConfigExists
               THEN [code |-> 409, configs |-> cfgs]
               ELSE [code |-> 201, configs |-> r.configs]

\* DatabaseManager.GetDatabaseConfig: GET /databases/{name}.
DatabaseManagerGetDatabaseConfig(be, cfgs, configName) ==
  IF StorageLoadDatabaseConfig(be, cfgs, configName).err = ErrConfigNotFound
  THEN [code |-> 404, configs |-> cfgs]
  ELSE [code |-> 200, configs |-> cfgs]

\* DatabaseManager.DeleteDatabaseConfig: DELETE /databases/{name}.
DatabaseManagerDeleteDatabaseConfig(be, cfgs, configName) ==
  LET r == StorageDeleteDatabaseConfig(be, cfgs, configName)
  IN IF r.err = ErrConfigNotFound
     THEN [code |-> 404, configs |-> cfgs]
     ELSE [code |-> 200, configs |-> r.configs]

\* DatabaseManager.HandleDatabases.  path is the request path behind
\* "/databases/" ("" for "/databases"); the handlers take the last path
\* segment as the configuration name.
HandleDatabases(be, cfgs, method, path, body) ==
  CASE method = "POST" /\ path = "" ->
         DatabaseManagerCreateDatabaseConfig(be, cfgs, body)
    [] method = "GET" /\ path = "" -> [code |-> 200, configs |-> cfgs]
    [] method = "GET" /\ path # "" ->
         DatabaseManagerGetDatabaseConfig(be, cfgs, path)
    [] method = "DELETE" /\ path # "" ->
         DatabaseManagerDeleteDatabaseConfig(be, cfgs, path)
    [] OTHER -> [code |-> 404, configs |-> cfgs]

\* The config argument of SaveLLMConfig (interface{}): its dynamic type and
\* the fields of the models.LLMConfig it is or points to.
LLMConfigValue(type, name, apiKey) == [type |-> type, name |-> name, apiKey |-> apiKey]

\* A map with one more key, and with one key less.
With(map, key, value) ==
  [k \in (DOMAIN map) \cup {key} |-> IF k = key THEN value ELSE map[k]]

Without(map, key) == [k \in (DOMAIN map) \ {key} |-> map[k]]

\* Storage.SaveLLMConfig.  MemoryStorage creates the provider's map before it
\* looks at the type of config; PostgresStorage inserts a row unless one
\* exists with the provider and the name.
StorageSaveLLMConfig(be, st, provider, config) ==
  LET made == IF be = "memory" /\ provider \notin DOMAIN st
              THEN With(st, provider, << >>)
              ELSE st
  IN IF config.type # "models.LLMConfig"
     THEN [configs |-> made, err |-> "unsupported config type"]
     ELSE IF provider \in DOMAIN made /\ config.name \in DOMAIN made[provider]
          THEN [configs |-> made, err |-> ErrConfigExists]
          ELSE [configs |->
                  With(made, provider,
                       With(IF provider \in DOMAIN made THEN made[provider]
                            ELSE << >>,
                            config.name, config)),
                err |-> ""]

\* Storage.GetLLMConfigs: the configurations of the provider (MemoryStorage
\* lists them in the order of a map iteration).
StorageGetLLMConfigs(be, st, provider) ==
  IF provider \notin DOMAIN st
  THEN {}
  ELSE { st[provider][n] : n \in DOMAIN st[provider] }

\* Storage.DeleteLLMConfig.  MemoryStorage removes the provider's map with
\* its last configuration; in PostgresStorage a provider is there only by
\* its rows.
StorageDeleteLLMConfig(be, st, provider, configName) ==
  IF provider \notin DOMAIN st
  THEN [configs |-> st, err |-> ErrConfigNotFound]
  ELSE IF configName \notin DOMAIN st[provider]
       THEN [configs |-> st, err |-> ErrConfigNotFound]
       ELSE [configs |->
               IF DOMAIN st[provider] = {configName}
               THEN Without(st, provider)
               ELSE With(st, provider, Without(st[provider], configName)),
             err |-> ""]

\* PostgresStorage.GetLLMConfigs: the rows of the provider, ORDER BY
\* created_at DESC; rows lists the keys of llm_configs in the order of their
\* creation.
RECURSIVE NewestFirst(_, _, _)
NewestFirst(st, rows, provider) ==
  IF rows = << >>
  THEN << >>
  ELSE LET row == rows[Len(rows)]
           rest == NewestFirst(st, SubSeq(rows, 1, Len(rows) - 1), provider)
       IN IF row.provider = provider
          THEN << [name |-> row.name, apiKey |-> st[provider][row.name].apiKey] >>
                 \o rest
          ELSE rest

\* PostgresStorage.LoadLLMConfig on the stored rows: a *models.LLMConfig for
\* provider "openai", an error for a row of another provider.
PostgresLoadLLMConfig(st, provider, configName) ==
  IF provider \notin DOMAIN st \/ configName \notin DOMAIN st[provider]
  THEN [err |-> ErrConfigNotFound, pointer |-> FALSE, config |-> NoConfig]
  ELSE IF provider = "openai"
       THEN [err |-> "", pointer |-> TRUE,
             config |-> [name |-> configName,
                         apiKey |-> st[provider][configName].apiKey]]
       ELSE [err |-> "unsupported provider", pointer |-> FALSE,
             config |-> NoConfig]

\* The llm_configs content of the pipeline runs, by provider and name.
PipelineLLMConfigs ==
  [p \in { q \in DOMAIN StoredLLMConfigs : StoredLLMConfigs[q] # << >> } |->
     [n \in { StoredLLMConfigs[p][i].name : i \in 1..Len(StoredLLMConfigs[p]) } |->
        LLMConfigValue("models.LLMConfig", n, Find(StoredLLMConfigs[p], n).apiKey)]]

\* The configuration POST /databases stores under a name in the pipeline runs.
PipelineConfig(name) == DatabaseConfig(name, "db.internal", NilOptions)

\* Mutant: the pool is opened without looking up the stored configuration.
LoadSourceWithoutConfig(pls, cfgs, dbConfigName, pingOk, openOk) ==
  IF dbConfigName \in pls /\ pingOk
  THEN [pools |-> pls, err |-> << >>, how |-> "reused"]
  ELSE IF ~openOk
       THEN [pools |-> pls \ {dbConfigName},
             err |-> << "failed to create connection pool",
                        "failed to ping database" >>,
             how |-> "failed"]
       ELSE [pools |-> pls \cup {dbConfigName}, err |-> << >>, how |-> "opened"]

\* source.Registry.LoadSource, under the registry mutex.  pingOk is the
\* answer of the stored pool's Ping, openOk that of the new pool's.
LoadSource(pls, cfgs, dbConfigName, pingOk, openOk) ==
  IF dbConfigName \in pls /\ pingOk
  THEN [pools |-> pls, err |-> << >>, how |-> "reused"]
  ELSE IF dbConfigName \notin cfgs
       THEN [pools |-> pls \ {dbConfigName},
             err |-> << "failed to load database config", ErrConfigNotFound >>,
             how |-> "failed"]
       ELSE IF ~openOk
            THEN [pools |-> pls \ {dbConfigName},
                  err |-> << "failed to create connection pool",
                             "failed to ping database" >>,
                  how |-> "failed"]
            ELSE [pools |-> (pls \ {dbConfigName}) \cup {dbConfigName},
                  err |-> << >>, how |-> "opened"]

\* The registry pool by pool.  A *sql.DB is named by its place in the order
\* in which sql.Open made them, and dbs tells of each whether it is open.

\* Mutant: a closed *sql.DB answers the ping as an open one.
PingIgnoresClosed(dbs, pool, pingOk) == pingOk

\* pool.Ping(): a closed *sql.DB fails it, an open one answers as the
\* database server does (pingOk).
Ping(dbs, pool, pingOk) == dbs[pool] = "open" /\ pingOk

\* Mutant: the stored pool is not consulted, every call opens a pool.
RegistryLoadSourceOpensAnew(reg, dbs, cfgs, dbConfigName, pingOk, openOk) ==
  IF dbConfigName \notin cfgs
  THEN [pools |-> Without(reg, dbConfigName), sqlDBs |-> dbs,
        err |-> << "failed to load database config", ErrConfigNotFound >>,
        conn |-> 0, steps |-> << "LoadDatabaseConfig" >>]
  ELSE IF ~openOk
       THEN [pools |-> Without(reg, dbConfigName),
             sqlDBs |-> Append(dbs, "closed"),
             err |-> << "failed to create connection pool",
                        "failed to ping database" >>,
             conn |-> 0, steps |-> << "LoadDatabaseConfig", "sql.Open" >>]
       ELSE [pools |-> With(reg, dbConfigName, Len(dbs) + 1),
             sqlDBs |-> Append(dbs, "open"), err |-> << >>,
             conn |-> Len(dbs) + 1,
             steps |-> << "LoadDatabaseConfig", "sql.Open" >>]

\* Mutant: a pool that failed its ping stays in the map until it is replaced.
RegistryLoadSourceKeepsDead(reg, dbs, cfgs, dbConfigName, pingOk, openOk) ==
  IF dbConfigName \in DOMAIN reg /\ Ping(dbs, reg[dbConfigName], pingOk)
  THEN [pools |-> reg, sqlDBs |-> dbs, err |-> << >>,
        conn |-> reg[dbConfigName], steps |-> << "Ping" >>]
  ELSE IF dbConfigName \notin cfgs
       THEN [pools |-> reg, sqlDBs |-> dbs,
             err |-> << "failed to load database config", ErrConfigNotFound >>,
             conn |-> 0, steps |-> << "LoadDatabaseConfig" >>]
       ELSE IF ~openOk
            THEN [pools |-> reg, sqlDBs |-> Append(dbs, "closed"),
                  err |-> << "failed to create connection pool",
                             "failed to ping database" >>,
                  conn |-> 0, steps |-> << "LoadDatabaseConfig", "sql.Open" >>]
            ELSE [pools |-> With(reg, dbConfigName, Len(dbs) + 1),
                  sqlDBs |-> Append(dbs, "open"), err |-> << >>,
                  conn |-> Len(dbs) + 1,
                  steps |-> << "LoadDatabaseConfig", "sql.Open" >>]

\* Mutant: the existence check and the store are not one critical section: a
\* call that finds a live pool has opened a pool of its own meanwhile.
RegistryLoadSourceOpensBeside(reg, dbs, cfgs, dbConfigName, pingOk, openOk) ==
  IF dbConfigName \in DOMAIN reg /\ Ping(dbs, reg[dbConfigName], pingOk)
  THEN [pools |-> reg, sqlDBs |-> Append(dbs, "open"), err |-> << >>,
        conn |-> reg[dbConfigName], steps |-> << "Ping", "sql.Open" >>]
  ELSE IF dbConfigName \notin cfgs
       THEN [pools |-> Without(reg, dbConfigName), sqlDBs |-> dbs,
             err |-> << "failed to load database config", ErrConfigNotFound >>,
             conn |-> 0, steps |-> << "LoadDatabaseConfig" >>]
       ELSE IF ~openOk
            THEN [pools |-> Without(reg, dbConfigName),
                  sqlDBs |-> Append(dbs, "closed"),
                  err |-> << "failed to create connection pool",
                             "failed to ping database" >>,
                  conn |-> 0, steps |-> << "LoadDatabaseConfig", "sql.Open" >>]
            ELSE [pools |-> With(reg, dbConfigName, Len(dbs) + 1),
                  sqlDBs |-> Append(dbs, "open"), err |-> << >>,
                  conn |-> Len(dbs) + 1,
                  steps |-> << "LoadDatabaseConfig", "sql.Open" >>]

\* source.Registry.LoadSource with the pools told apart: the map and the
\* *sql.DBs after the call, the error, the *sql.DB of the connector returned
\* (0: none) and the calls made on the way.  A pool that fails its ping leaves
\* the map and is not closed; createConnectionPool closes the *sql.DB it made
\* when the first ping fails.
RegistryLoadSource(reg, dbs, cfgs, dbConfigName, pingOk, openOk) ==
  LET pinged == IF dbConfigName \in DOMAIN reg THEN << "Ping" >> ELSE << >>
      removed == Without(reg, dbConfigName)
  IN IF dbConfigName \in DOMAIN reg /\ Ping(dbs, reg[dbConfigName], pingOk)
     THEN [pools |-> reg, sqlDBs |-> dbs, err |-> << >>,
           conn |-> reg[dbConfigName], steps |-> pinged]
     ELSE IF dbConfigName \notin cfgs
          THEN [pools |-> removed, sqlDBs |-> dbs,
                err |-> << "failed to load database config",
                           ErrConfigNotFound >>,
                conn |-> 0, steps |-> pinged \o << "LoadDatabaseConfig" >>]
          ELSE IF ~openOk
               THEN [pools |-> removed, sqlDBs |-> Append(dbs, "closed"),
                     err |-> << "failed to create connection pool",
                                "failed to ping database" >>,
                     conn |-> 0,
                     steps |-> pinged \o << "LoadDatabaseConfig", "sql.Open" >>]
               ELSE [pools |-> With(removed, dbConfigName, Len(dbs) + 1),
                     sqlDBs |-> Append(dbs, "open"), err |-> << >>,
                     conn |-> Len(dbs) + 1,
                     steps |-> pinged \o << "LoadDatabaseConfig", "sql.Open" >>]

\* source.Registry.Close: every pool of the map is closed and stays in the map.
RegistryClose(reg, dbs) ==
  [i \in DOMAIN dbs |->
     IF \E name \in DOMAIN reg : reg[name] = i THEN "closed" ELSE dbs[i]]

\* Mutant: the connector closes the pool it was given.
PostgresConnectorCloseClosesPool(dbs, pool) == [dbs EXCEPT ![pool] = "closed"]

\* PostgresConnector.Close: return nil.
PostgresConnectorClose(dbs, pool) == dbs

----------------------------------------------------------------------------
VARIABLES
  backend,             \* the storage.Storage implementation in use
  dbConfigs,           \* the stored database configurations, by name
  pools,               \* source.Registry.pools: names that have a pool
  orchestratorPool,    \* number of elements in the orchestratorPool channel
  assistantResponses,  \* the stored responses, by uuid
  pc,                  \* position of each request / background task
  req,                 \* the accepted AssistantRequest of each task
  http,                \* status code answered to each POST (0: none yet)
  err,                 \* the error text a task hands to handleError
  calls,               \* the collaborator calls each task has made, in order
  exitPath,            \* how each task left the guarded section
  completion,          \* the content of the last completion a task received
  last,                \* the last direct call of a storage, appender, handler or
                       \* Prompt Builder operation, with its result
  llmConfigs,          \* the stored LLM configurations, by provider and name
  mu,                  \* ResponseAppender.mu of each appender: the writer
                       \* holding it (0: free)
  writer,              \* each goroutine writing through an appender: its
                       \* call and the response it loaded
  effects,             \* the appender calls that returned nil, in the order
                       \* of their saves
  poolOf,              \* source.Registry.pools, pool by pool: the *sql.DB
                       \* registered under each name
  sqlDBs,              \* every *sql.DB opened so far: "open" or "closed"
  conn,                \* the *sql.DB behind the connector of each
                       \* orchestration (0: none)
  llmRows,             \* the llm_configs rows in the order of their creation
  providers,           \* every openai.Provider made so far: the config it is
                       \* initialized with
  llmProvider          \* the Provider each orchestration holds (0: none)

vars == << backend, dbConfigs, pools, orchestratorPool, assistantResponses,
           pc, req, http, err, calls, exitPath, completion, last, llmConfigs,
           mu, writer, effects, poolOf, sqlDBs, conn, llmRows, providers,
           llmProvider >>

\* The appenders and the registry followed step by step and pool by pool.
resolution == << llmRows, providers, llmProvider >>

components == << mu, writer, effects, poolOf, sqlDBs, conn, resolution >>

NoRequest ==
  [malformed |-> FALSE, db |-> "", question |-> "", provider |-> "", config |-> ""]

\* The completion variable of a task before provider.Complete has answered.
NoCompletion == << "nil" >>

\* No direct call has been made.
NoCall == [op |-> "none", n |-> 0]

\* No goroutine writes through an appender of its own.
NoWriters ==
  /\ mu = [a \in Requests |-> 0]
  /\ writer = [w \in Requests |-> Idle(NewResponseAppender(w))]
  /\ effects = << >>

\* No *sql.DB has been opened.
NoPools ==
  /\ poolOf = << >>
  /\ sqlDBs = << >>
  /\ conn = [t \in Requests |-> 0]

\* No Provider has been made.
NoProviders ==
  /\ llmRows = << >>
  /\ providers = << >>
  /\ llmProvider = [t \in Requests |-> 0]

Init ==
  /\ backend \in {"postgres", "memory"}
  /\ dbConfigs = [n \in StorableDbNames |-> Stored(backend, PipelineConfig(n))]
  /\ pools = {}
  /\ orchestratorPool = 0
  /\ assistantResponses = << >>
  /\ pc = [t \in Requests |-> "new"]
  /\ req = [t \in Requests |-> NoRequest]
  /\ http = [t \in Requests |-> 0]
  /\ err = [t \in Requests |-> << >>]
  /\ calls = [t \in Requests |-> << >>]
  /\ exitPath = [t \in Requests |-> ""]
  /\ completion = [t \in Requests |-> NoCompletion]
  /\ last = NoCall
  /\ llmConfigs = PipelineLLMConfigs
  /\ NoWriters
  /\ NoPools
  /\ NoProviders

----------------------------------------------------------------------------
\* Configuration CRUD (DatabaseManager), as far as the pipeline sees it.

SaveDatabaseConfig(name) ==
  /\ LET r == StorageSaveDatabaseConfig(backend, dbConfigs, PipelineConfig(name))
     IN r.err = "" /\ dbConfigs' = r.configs
  /\ UNCHANGED << backend, pools, orchestratorPool, assistantResponses, pc,
                  req, http, err, calls, exitPath, completion, last,
                  llmConfigs, components >>

DeleteDatabaseConfig(name) ==
  /\ LET r == StorageDeleteDatabaseConfig(backend, dbConfigs, name)
     IN r.err = "" /\ dbConfigs' = r.configs
  /\ UNCHANGED << backend, pools, orchestratorPool, assistantResponses, pc,
                  req, http, err, calls, exitPath, completion, last,
                  llmConfigs, components >>

----------------------------------------------------------------------------
\* AssistantManager.CreateAssistantRequest: the handler.

\* Requests arrive in the order of their numbers.
NextToArrive(t) == pc[t] = "new" /\ \A u \in Requests : u < t => pc[u] # "new"

\* The body of a POST /assistant/ask: malformed JSON, or the four fields of
\* models.AssistantRequest ("" for a field that is missing or empty).
Body(r, question) ==
  [malformed |-> FALSE, db |-> r.db, question |-> question,
   provider |-> r.provider, config |-> r.config]

AskBodies ==
  { Body(r, Question) : r \in AskRequests }
  \cup { [NoRequest EXCEPT !.malformed = TRUE],
         Body([db |-> "", provider |-> "openai", config |-> "main"], Question),
         Body([db |-> "sales_db", provider |-> "openai", config |-> "main"], ""),
         Body([db |-> "sales_db", provider |-> "", config |-> "main"], Question),
         Body([db |-> "sales_db", provider |-> "llama", config |-> "main"], Question),
         Body([db |-> "sales_db", provider |-> "openai", config |-> ""], Question) }

\* Mutant: llm_config is not required.
parseRequestConfigOptional(body) ==
  IF body.malformed
  THEN "invalid request payload"
  ELSE IF \/ body.db = ""
          \/ body.question = ""
          \/ body.provider = ""
          \/ body.provider \notin {"openai", "anthropic", "gemini", "bedrock"}
       THEN "validation failed"
       ELSE ""

\* parseRequest: json.Unmarshal, then validator.Struct with the tags of
\* models.AssistantRequest (required; llm_provider one of four kinds).
parseRequest(body) ==
  IF body.malformed
  THEN "invalid request payload"
  ELSE IF \/ body.db = ""
          \/ body.question = ""
          \/ body.provider = ""
          \/ body.provider \notin {"openai", "anthropic", "gemini", "bedrock"}
          \/ body.config = ""
       THEN "validation failed"
       ELSE ""

\* parseRequest fails: 400, return.
AskInvalid(t) ==
  /\ NextToArrive(t)
  /\ \E body \in AskBodies : parseRequest(body) # ""
  /\ pc' = [pc EXCEPT ![t] = "rejected"]
  /\ http' = [http EXCEPT ![t] = 400]
  /\ UNCHANGED << backend, dbConfigs, pools, orchestratorPool,
                  assistantResponses, req, err, calls, exitPath, completion,
                  last, llmConfigs, components >>

\* SaveAssistantResponse of the initial response fails (PostgreSQL only):
\* 500, return.
AskSaveFails(t) ==
  /\ NextToArrive(t)
  /\ backend = "postgres"
  /\ \E body \in AskBodies : parseRequest(body) = ""
  /\ pc' = [pc EXCEPT ![t] = "rejected"]
  /\ http' = [http EXCEPT ![t] = 500]
  /\ UNCHANGED << backend, dbConfigs, pools, orchestratorPool,
                  assistantResponses, req, err, calls, exitPath, completion,
                  last, llmConfigs, components >>

InitialResponse(t, question) ==
  [uuid |-> t, question |-> question, success |-> TRUE, status |-> "in_progress",
   response |-> << Update("step_output", << "Processing your request..." >>) >>]

\* Mutant: the handler goes on without storing the initial response.
AskSavedNothing(t) ==
  /\ NextToArrive(t)
  /\ \E body \in AskBodies :
       /\ parseRequest(body) = ""
       /\ req' = [req EXCEPT ![t] = body]
  /\ pc' = [pc EXCEPT ![t] = "saved"]
  /\ UNCHANGED << backend, dbConfigs, pools, orchestratorPool,
                  assistantResponses, http, err, calls, exitPath, completion,
                  last, llmConfigs, components >>

\* The request is parsed and the initial response is stored.
AskSaved(t) ==
  /\ NextToArrive(t)
  /\ \E body \in AskBodies :
       /\ parseRequest(body) = ""
       /\ req' = [req EXCEPT ![t] = body]
       /\ assistantResponses' =
            SaveAssistantResponse(assistantResponses,
                                  InitialResponse(t, body.question))
  /\ pc' = [pc EXCEPT ![t] = "saved"]
  /\ UNCHANGED << backend, dbConfigs, pools, orchestratorPool, http, err,
                  calls, exitPath, completion, last, llmConfigs, components >>

\* The goroutine is launched and 201 is answered with the initial response.
AskAccepted(t) ==
  /\ pc[t] = "saved"
  /\ pc' = [pc EXCEPT ![t] = "acquire"]
  /\ http' = [http EXCEPT ![t] = 201]
  /\ UNCHANGED << backend, dbConfigs, pools, orchestratorPool,
                  assistantResponses, req, err, calls, exitPath, completion,
                  last, llmConfigs, components >>

----------------------------------------------------------------------------
\* The goroutine of CreateAssistantRequest, up to orc.Run.

\* Mutant: the send does not block on a full channel.
AcquireWithoutBlocking(t) ==
  /\ pc[t] = "acquire"
  /\ orchestratorPool' = orchestratorPool + 1
  /\ pc' = [pc EXCEPT ![t] = "loadLLMConfig"]
  /\ UNCHANGED << backend, dbConfigs, pools, assistantResponses, req, http,
                  err, calls, exitPath, completion, last, llmConfigs,
                  components >>

\* am.orchestratorPool <- struct{}{}: blocks while the channel is full.
Acquire(t) ==
  /\ pc[t] = "acquire"
  /\ orchestratorPool < MaxConcurrentOrchestrations
  /\ orchestratorPool' = orchestratorPool + 1
  /\ pc' = [pc EXCEPT ![t] = "loadLLMConfig"]
  /\ UNCHANGED << backend, dbConfigs, pools, assistantResponses, req, http,
                  err, calls, exitPath, completion, last, llmConfigs,
                  components >>

\* Mutant: the goroutine ends without the receive that frees its slot.
ReleaseKeepsSlot(t) ==
  /\ pc[t] = "release"
  /\ pc' = [pc EXCEPT ![t] = "done"]
  /\ UNCHANGED << backend, dbConfigs, pools, orchestratorPool,
                  assistantResponses, req, http, err, calls, exitPath,
                  completion, last, llmConfigs, components >>

\* The deferred receive: defer func() { <-am.orchestratorPool }().
Release(t) ==
  /\ pc[t] = "release"
  /\ orchestratorPool' = orchestratorPool - 1
  /\ pc' = [pc EXCEPT ![t] = "done"]
  /\ UNCHANGED << backend, dbConfigs, pools, assistantResponses, req, http,
                  err, calls, exitPath, completion, last, llmConfigs,
                  components >>

Loaded(t) == LoadLLMConfig(backend, req[t].provider, req[t].config)

\* Mutant: the early return leaves the goroutine without the deferred receive.
PreRunFailsSkipsRelease(t, message, cause, path, made) ==
  /\ assistantResponses' =
       handleOrchestrationError(assistantResponses, t, message, cause)
  /\ calls' = [calls EXCEPT ![t] = @ \o made]
  /\ exitPath' = [exitPath EXCEPT ![t] = path]
  /\ pc' = [pc EXCEPT ![t] = "done"]
  /\ UNCHANGED << backend, dbConfigs, pools, orchestratorPool, req, http, err,
                  completion, last, llmConfigs, components >>

\* A pre-Run failure: handleOrchestrationError, then return.
PreRunFails(t, message, cause, path, made) ==
  /\ assistantResponses' =
       handleOrchestrationError(assistantResponses, t, message, cause)
  /\ calls' = [calls EXCEPT ![t] = @ \o made]
  /\ exitPath' = [exitPath EXCEPT ![t] = path]
  /\ pc' = [pc EXCEPT ![t] = "release"]
  /\ UNCHANGED << backend, dbConfigs, pools, orchestratorPool, req, http, err,
                  completion, last, llmConfigs, components >>

LLMConfigNotFound(t) ==
  /\ pc[t] = "loadLLMConfig"
  /\ Loaded(t).err = ErrConfigNotFound
  /\ PreRunFails(t, "LLM configuration not found for provider",
                 << ErrConfigNotFound >>, "llm_not_found", << "LoadLLMConfig" >>)

LLMConfigLoadError(t) ==
  /\ pc[t] = "loadLLMConfig"
  /\ Loaded(t).err \notin {"", ErrConfigNotFound}
  /\ PreRunFails(t, "Failed to load LLM configuration", << Loaded(t).err >>,
                 "llm_load_error", << "LoadLLMConfig" >>)

LLMConfigWrongType(t) ==
  /\ pc[t] = "loadLLMConfig"
  /\ Loaded(t).err = ""
  /\ ~Loaded(t).pointer
  /\ PreRunFails(t, "Invalid LLM configuration type",
                 << "expected *models.LLMConfig" >>, "llm_wrong_type",
                 << "LoadLLMConfig" >>)

OrchestratorCreateFails(t) ==
  /\ pc[t] = "loadLLMConfig"
  /\ Loaded(t).err = ""
  /\ Loaded(t).pointer
  /\ NewOrchestrator(req[t].provider, Loaded(t).config) # << >>
  /\ PreRunFails(t, "Failed to create orchestrator",
                 NewOrchestrator(req[t].provider, Loaded(t).config),
                 "create_failed", << "LoadLLMConfig", "GetProvider" >>)

OrchestratorCreated(t) ==
  /\ pc[t] = "loadLLMConfig"
  /\ Loaded(t).err = ""
  /\ Loaded(t).pointer
  /\ NewOrchestrator(req[t].provider, Loaded(t).config) = << >>
  /\ calls' = [calls EXCEPT ![t] = @ \o << "LoadLLMConfig", "GetProvider" >>]
  /\ pc' = [pc EXCEPT ![t] = "run"]
  /\ UNCHANGED << backend, dbConfigs, pools, orchestratorPool,
                  assistantResponses, req, http, err, exitPath, completion,
                  last, llmConfigs, components >>

----------------------------------------------------------------------------
\* Orchestrator.Run.  A step is one call of a collaborator together with the
\* store write that follows it.

\* A step of Run that appends one update and goes on.
AppendAndGo(t, kind, text, next) ==
  /\ assistantResponses' = AppendResponse(assistantResponses, t, kind, text)
  /\ pc' = [pc EXCEPT ![t] = next]

\* The kind of the update o.handleError appends.
ErrorKind == "error"

\* o.handleError, first store write: the error update.
handleError(t, message, cause) ==
  AppendAndGo(t, ErrorKind, << message >> \o cause, "markFailed")

\* Mutant: the return after o.handleError is missing and Run goes on to its
\* last statement.
AfterHandleErrorFallsThrough == "markCompleted"

\* Where Run continues after o.handleError: it returns.
AfterHandleError == "release"

\* connectToDatabase: LoadSource answers with a connector.
ConnectToDatabase(t) ==
  /\ pc[t] = "run"
  /\ LoadAssistantResponse(assistantResponses, t).err = ""
  /\ \E pingOk \in BOOLEAN, openOk \in BOOLEAN :
       LET r == LoadSource(pools, DOMAIN dbConfigs, req[t].db, pingOk, openOk)
       IN /\ r.err = << >>
          /\ pools' = r.pools
  /\ calls' = [calls EXCEPT ![t] = Append(@, "LoadSource")]
  /\ pc' = [pc EXCEPT ![t] = "getSchema"]
  /\ UNCHANGED << backend, dbConfigs, orchestratorPool, assistantResponses,
                  req, http, err, exitPath, completion, last, llmConfigs,
                  components >>

\* Run fails before the schema step: loadAssistantResponse does not find the
\* uuid (o.handleError directly), or LoadSource answers with an error.
RunStartFails(t) ==
  /\ pc[t] = "run"
  /\ IF LoadAssistantResponse(assistantResponses, t).err # ""
     THEN /\ err' = [err EXCEPT ![t] =
                       << "Failed to load assistant response",
                          "failed to load assistant response",
                          LoadAssistantResponse(assistantResponses, t).err >>]
          /\ pc' = [pc EXCEPT ![t] = "handleError"]
          /\ UNCHANGED << pools, calls >>
     ELSE /\ \E pingOk \in BOOLEAN, openOk \in BOOLEAN :
               LET r == LoadSource(pools, DOMAIN dbConfigs, req[t].db, pingOk, openOk)
               IN /\ r.err # << >>
                  /\ pools' = r.pools
                  /\ err' = [err EXCEPT ![t] =
                               << "Failed to connect to database",
                                  "failed to connect to source database" >>
                               \o r.err]
          /\ calls' = [calls EXCEPT ![t] = Append(@, "LoadSource")]
          /\ pc' = [pc EXCEPT ![t] = "connectFailed"]
  /\ UNCHANGED << backend, dbConfigs, orchestratorPool, assistantResponses,
                  req, http, exitPath, completion, last, llmConfigs,
                  components >>

\* Run line 121: the error update appended before o.handleError.
ConnectFailedAppend(t) ==
  /\ pc[t] = "connectFailed"
  /\ AppendAndGo(t, "error", err[t], "handleError")
  /\ UNCHANGED << backend, dbConfigs, pools, orchestratorPool, req, http, err,
                  calls, exitPath, completion, last, llmConfigs, components >>

\* o.handleError for the failures of the start of Run.
HandleErrorAppend(t) ==
  /\ pc[t] = "handleError"
  /\ handleError(t, Head(err[t]), Tail(err[t]))
  /\ UNCHANGED << backend, dbConfigs, pools, orchestratorPool, req, http, err,
                  calls, exitPath, completion, last, llmConfigs, components >>

\* o.handleError, second store write: UpdateStatus(failed, false); Run returns.
HandleErrorStatus(t) ==
  /\ pc[t] = "markFailed"
  /\ assistantResponses' = UpdateStatus(assistantResponses, t, "failed", FALSE)
  /\ exitPath' = [exitPath EXCEPT ![t] = "failed"]
  /\ pc' = [pc EXCEPT ![t] = AfterHandleError]
  /\ UNCHANGED << backend, dbConfigs, pools, orchestratorPool, req, http, err,
                  calls, completion, last, llmConfigs, components >>

\* The deferred recover of Run after a fault: UpdateStatus(failed, false) and
\* nothing else; Run then returns normally.
RecoverPanic(t) ==
  /\ assistantResponses' = UpdateStatus(assistantResponses, t, "failed", FALSE)
  /\ exitPath' = [exitPath EXCEPT ![t] = "recovered"]
  /\ pc' = [pc EXCEPT ![t] = "release"]

\* GetSchema, first statement: the "Fetching database schema..." update.
GetSchemaStart(t) ==
  /\ pc[t] = "getSchema"
  /\ AppendAndGo(t, "step_output", << "Fetching database schema..." >>,
                 "schemaQuery")
  /\ calls' = [calls EXCEPT ![t] = Append(@, "GetSchema")]
  /\ UNCHANGED << backend, dbConfigs, pools, orchestratorPool, req, http, err,
                  exitPath, completion, last, llmConfigs, components >>

\* Mutant: Run goes on to the SQL generation after the failed schema query.
GetSchemaQueryFailsGoesOn(t) ==
  /\ pc[t] = "schemaQuery"
  /\ AppendAndGo(t, ErrorKind,
                 << "Failed to fetch database schema", "failed to get schema",
                    "failed to query schema" >>, "generateSQLQuery")
  /\ UNCHANGED << backend, dbConfigs, pools, orchestratorPool, req, http, err,
                  calls, exitPath, completion, last, llmConfigs, components >>

\* GetSchema: the schema query fails.
GetSchemaQueryFails(t) ==
  /\ pc[t] = "schemaQuery"
  /\ handleError(t, "Failed to fetch database schema",
                 << "failed to get schema", "failed to query schema" >>)
  /\ UNCHANGED << backend, dbConfigs, pools, orchestratorPool, req, http, err,
                  calls, exitPath, completion, last, llmConfigs, components >>

\* processSchemaRows: all rows read, the debug_log update.
GetSchemaRowsRead(t) ==
  /\ pc[t] = "schemaQuery"
  /\ AppendAndGo(t, "debug_log", << "Processed tables" >>, "schemaRowsErr")
  /\ UNCHANGED << backend, dbConfigs, pools, orchestratorPool, req, http, err,
                  calls, exitPath, completion, last, llmConfigs, components >>

\* processSchemaRows: rows.Err() reports an error after the debug_log update.
GetSchemaRowsErr(t) ==
  /\ pc[t] = "schemaRowsErr"
  /\ handleError(t, "Failed to fetch database schema",
                 << "failed to get schema", "error iterating rows" >>)
  /\ UNCHANGED << backend, dbConfigs, pools, orchestratorPool, req, http, err,
                  calls, exitPath, completion, last, llmConfigs, components >>

GetSchemaDone(t) ==
  /\ pc[t] = "schemaRowsErr"
  /\ AppendAndGo(t, "step_output", << "Schema retrieval completed" >>,
                 "generateSQLQuery")
  /\ UNCHANGED << backend, dbConfigs, pools, orchestratorPool, req, http, err,
                  calls, exitPath, completion, last, llmConfigs, components >>

\* generateSQLQuery, first statement.
GenerateSQLStart(t) ==
  /\ pc[t] = "generateSQLQuery"
  /\ AppendAndGo(t, "step_output", << "Generating SQL query... please wait" >>,
                 "completeSQL")
  /\ UNCHANGED << backend, dbConfigs, pools, orchestratorPool, req, http, err,
                  calls, exitPath, completion, last, llmConfigs, components >>

\* provider.Complete returns an error.
GenerateSQLCompleteFails(t) ==
  /\ pc[t] = "completeSQL"
  /\ handleError(t, "Failed to generate SQL query",
                 << "failed to generate SQL query", "api_error" >>)
  /\ calls' = [calls EXCEPT ![t] = Append(@, "Complete")]
  /\ UNCHANGED << backend, dbConfigs, pools, orchestratorPool, req, http, err,
                  exitPath, completion, last, llmConfigs, components >>

\* provider.Complete returns a completion on which ExtractResponse faults.
GenerateSQLFaults(t) ==
  /\ pc[t] = "completeSQL"
  /\ \E c \in Completions("sql") :
       /\ ExtractResponse("sql", c).panic
       /\ completion' = [completion EXCEPT ![t] = c]
  /\ RecoverPanic(t)
  /\ calls' = [calls EXCEPT ![t] = Append(@, "Complete")]
  /\ UNCHANGED << backend, dbConfigs, pools, orchestratorPool, req, http, err,
                  last, llmConfigs, components >>

\* ExtractResponse("sql", ...) returns the empty string.
GenerateSQLEmpty(t) ==
  /\ pc[t] = "completeSQL"
  /\ \E c \in Completions("sql") :
       /\ ~ExtractResponse("sql", c).panic
       /\ ExtractResponse("sql", c).value = << >>
       /\ completion' = [completion EXCEPT ![t] = c]
  /\ handleError(t, "Failed to generate SQL query",
                 << "no SQL query found in LLM response" >>)
  /\ calls' = [calls EXCEPT ![t] = Append(@, "Complete")]
  /\ UNCHANGED << backend, dbConfigs, pools, orchestratorPool, req, http, err,
                  exitPath, last, llmConfigs, components >>

\* A query is extracted and appended as a step_output update.
GenerateSQLDone(t) ==
  /\ pc[t] = "completeSQL"
  /\ \E c \in Completions("sql") :
       /\ ~ExtractResponse("sql", c).panic
       /\ ExtractResponse("sql", c).value # << >>
       /\ completion' = [completion EXCEPT ![t] = c]
       /\ AppendAndGo(t, "step_output", ExtractResponse("sql", c).value,
                      "executeQuery")
  /\ calls' = [calls EXCEPT ![t] = Append(@, "Complete")]
  /\ UNCHANGED << backend, dbConfigs, pools, orchestratorPool, req, http, err,
                  exitPath, last, llmConfigs, components >>

\* Mutant: the failed query is executed again.
ExecuteQueryFailsRetries(t) ==
  /\ pc[t] = "executeQuery"
  /\ Len(calls[t]) < 7
  /\ calls' = [calls EXCEPT ![t] = Append(@, "ExecuteQuery")]
  /\ UNCHANGED << backend, dbConfigs, pools, orchestratorPool,
                  assistantResponses, pc, req, http, err, exitPath,
                  completion, last, llmConfigs, components >>

\* executeQuery: db.ExecuteQuery returns an error.
ExecuteQueryFails(t) ==
  /\ pc[t] = "executeQuery"
  /\ handleError(t, "Failed to execute query",
                 << "failed to execute query", "failed to execute query" >>)
  /\ calls' = [calls EXCEPT ![t] = Append(@, "ExecuteQuery")]
  /\ UNCHANGED << backend, dbConfigs, pools, orchestratorPool, req, http, err,
                  exitPath, completion, last, llmConfigs, components >>

\* Mutant: the query is executed without a word in the log.
ExecuteQueryDoneSilent(t) ==
  /\ pc[t] = "executeQuery"
  /\ pc' = [pc EXCEPT ![t] = "generateFinalResponse"]
  /\ calls' = [calls EXCEPT ![t] = Append(@, "ExecuteQuery")]
  /\ UNCHANGED << backend, dbConfigs, pools, orchestratorPool,
                  assistantResponses, req, http, err, exitPath, completion,
                  last, llmConfigs, components >>

ExecuteQueryDone(t) ==
  /\ pc[t] = "executeQuery"
  /\ AppendAndGo(t, "step_output", << "Query executed successfully" >>,
                 "generateFinalResponse")
  /\ calls' = [calls EXCEPT ![t] = Append(@, "ExecuteQuery")]
  /\ UNCHANGED << backend, dbConfigs, pools, orchestratorPool, req, http, err,
                  exitPath, completion, last, llmConfigs, components >>

\* generateFinalResponse up to the "Generating report..." update.
GenerateFinalStart(t) ==
  /\ pc[t] = "generateFinalResponse"
  /\ AppendAndGo(t, "step_output", << "Generating report..." >>,
                 "completeReport")
  /\ UNCHANGED << backend, dbConfigs, pools, orchestratorPool, req, http, err,
                  calls, exitPath, completion, last, llmConfigs, components >>

GenerateFinalCompleteFails(t) ==
  /\ pc[t] = "completeReport"
  /\ handleError(t, "Failed to generate final response",
                 << "failed to generate report", "api_error" >>)
  /\ calls' = [calls EXCEPT ![t] = Append(@, "Complete")]
  /\ UNCHANGED << backend, dbConfigs, pools, orchestratorPool, req, http, err,
                  exitPath, completion, last, llmConfigs, components >>

GenerateFinalFaults(t) ==
  /\ pc[t] = "completeReport"
  /\ \E c \in Completions("markdown") :
       /\ ExtractResponse("markdown", c).panic
       /\ completion' = [completion EXCEPT ![t] = c]
  /\ RecoverPanic(t)
  /\ calls' = [calls EXCEPT ![t] = Append(@, "Complete")]
  /\ UNCHANGED << backend, dbConfigs, pools, orchestratorPool, req, http, err,
                  last, llmConfigs, components >>

GenerateFinalEmpty(t) ==
  /\ pc[t] = "completeReport"
  /\ \E c \in Completions("markdown") :
       /\ ~ExtractResponse("markdown", c).panic
       /\ ExtractResponse("markdown", c).value = << >>
       /\ completion' = [completion EXCEPT ![t] = c]
  /\ handleError(t, "Failed to generate final response",
                 << "no markdown content found in LLM response" >>)
  /\ calls' = [calls EXCEPT ![t] = Append(@, "Complete")]
  /\ UNCHANGED << backend, dbConfigs, pools, orchestratorPool, req, http, err,
                  exitPath, last, llmConfigs, components >>

\* Mutant: the whole completion, delimiters included, is appended.
GenerateFinalDoneRawCompletion(t) ==
  /\ pc[t] = "completeReport"
  /\ \E c \in Completions("markdown") :
       /\ ~ExtractResponse("markdown", c).panic
       /\ ExtractResponse("markdown", c).value # << >>
       /\ completion' = [completion EXCEPT ![t] = c]
       /\ AppendAndGo(t, "final_response", c, "markCompleted")
  /\ calls' = [calls EXCEPT ![t] = Append(@, "Complete")]
  /\ UNCHANGED << backend, dbConfigs, pools, orchestratorPool, req, http, err,
                  exitPath, last, llmConfigs, components >>

\* The markdown is extracted and appended as the final_response update.
GenerateFinalDone(t) ==
  /\ pc[t] = "completeReport"
  /\ \E c \in Completions("markdown") :
       /\ ~ExtractResponse("markdown", c).panic
       /\ ExtractResponse("markdown", c).value # << >>
       /\ completion' = [completion EXCEPT ![t] = c]
       /\ AppendAndGo(t, "final_response", ExtractResponse("markdown", c).value,
                      "markCompleted")
  /\ calls' = [calls EXCEPT ![t] = Append(@, "Complete")]
  /\ UNCHANGED << backend, dbConfigs, pools, orchestratorPool, req, http, err,
                  exitPath, last, llmConfigs, components >>

\* Mutant: Run writes the status and then appends a closing update.
MarkCompletedThenAppends(t) ==
  /\ pc[t] = "markCompleted"
  /\ IF assistantResponses[t].status = "in_progress"
     THEN /\ assistantResponses' =
               UpdateStatus(assistantResponses, t, "completed", TRUE)
          /\ UNCHANGED << pc, exitPath >>
     ELSE /\ AppendAndGo(t, "step_output", << "Done" >>, "release")
          /\ exitPath' = [exitPath EXCEPT ![t] = "completed"]
  /\ UNCHANGED << backend, dbConfigs, pools, orchestratorPool, req, http, err,
                  calls, completion, last, llmConfigs, components >>

\* Run, last statement: UpdateStatus(completed, true).
MarkCompleted(t) ==
  /\ pc[t] = "markCompleted"
  /\ assistantResponses' = UpdateStatus(assistantResponses, t, "completed", TRUE)
  /\ exitPath' = [exitPath EXCEPT ![t] = "completed"]
  /\ pc' = [pc EXCEPT ![t] = "release"]
  /\ UNCHANGED << backend, dbConfigs, pools, orchestratorPool, req, http, err,
                  calls, completion, last, llmConfigs, components >>

----------------------------------------------------------------------------
\* One step of the background task of request t.
Task(t) ==
  \/ Acquire(t) \/ Release(t)
  \/ LLMConfigNotFound(t) \/ LLMConfigLoadError(t) \/ LLMConfigWrongType(t)
  \/ OrchestratorCreateFails(t) \/ OrchestratorCreated(t)
  \/ ConnectToDatabase(t) \/ RunStartFails(t) \/ ConnectFailedAppend(t)
  \/ HandleErrorAppend(t) \/ HandleErrorStatus(t)
  \/ GetSchemaStart(t) \/ GetSchemaQueryFails(t) \/ GetSchemaRowsRead(t)
  \/ GetSchemaRowsErr(t) \/ GetSchemaDone(t)
  \/ GenerateSQLStart(t) \/ GenerateSQLCompleteFails(t) \/ GenerateSQLFaults(t)
  \/ GenerateSQLEmpty(t) \/ GenerateSQLDone(t)
  \/ ExecuteQueryFails(t) \/ ExecuteQueryDone(t)
  \/ GenerateFinalStart(t) \/ GenerateFinalCompleteFails(t)
  \/ GenerateFinalFaults(t) \/ GenerateFinalEmpty(t) \/ GenerateFinalDone(t)
  \/ MarkCompleted(t)

Next ==
  \/ \E name \in StorableDbNames : SaveDatabaseConfig(name)
  \/ \E name \in StorableDbNames : DeleteDatabaseConfig(name)
  \/ \E t \in Requests : AskInvalid(t) \/ AskSaveFails(t) \/ AskSaved(t) \/ AskAccepted(t)
  \/ \E t \in Requests : Task(t)

Spec == Init /\ [][Next]_vars

\* The Go scheduler runs every goroutine that can take a step, and the
\* channel wakes blocked senders in arrival order.
FairSpec == Spec /\ \A t \in Requests : WF_vars(Task(t))

----------------------------------------------------------------------------
\* The Prompt Builder called directly: one call of ValidateQuery or of
\* ExtractResponse on a text of the sets below.

\* Longest text handed to ExtractResponse.
MaxTextLen == 4

\* All texts of up to MaxTextLen tokens over the delimiters of the tag, the
\* blank and a content character.
Texts(tag) ==
  UNION { [1..n -> {StartTag(tag), EndTag(tag), " ", "x"}] : n \in 0..MaxTextLen }

\* The queries handed to ValidateQuery: blanks, a first word, a rest, blanks.
QueryHeads ==
  { << >>, Select, << "S", "E", "L", "E", "C", "T" >>,
    << "s", "e", "l", "e", "c" >>, << "w", "i", "t", "h" >> }

QueryRests ==
  { << >>, << " ", "1" >>, << " ", "D", "R", "O", "P" >>,
    << " ", "*", " ", "f", "r", "o", "m", " " >>
      \o << "u", "p", "d", "a", "t", "e", "s", "_", "l", "o", "g" >> }
  \cup { << " " >> \o dangerousKeywords[k] : k \in 1..Len(dangerousKeywords) }
  \cup { << " ", "x" >> \o dangerousKeywords[k] \o << "d", " " >> \o dangerousKeywords[1] :
           k \in 1..Len(dangerousKeywords) }

Queries ==
  { lead \o head \o rest \o trail :
      lead \in {<< >>, << " " >>}, head \in QueryHeads, rest \in QueryRests,
      trail \in {<< >>, << " ", " " >>} }

CallValidateQuery ==
  /\ last = NoCall
  /\ \E q \in Queries :
       last' = [op |-> "ValidateQuery", n |-> 1, query |-> q,
                result |-> ValidateQuery(q)]
  /\ UNCHANGED << backend, dbConfigs, pools, orchestratorPool,
                  assistantResponses, pc, req, http, err, calls, exitPath,
                  completion, llmConfigs, components >>

CallExtractResponse ==
  /\ last = NoCall
  /\ \E tag \in {"sql", "markdown"} :
       \E text \in Texts(tag) :
         last' = [op |-> "ExtractResponse", n |-> 1, tag |-> tag, text |-> text,
                  result |-> ExtractResponse(tag, text)]
  /\ UNCHANGED << backend, dbConfigs, pools, orchestratorPool,
                  assistantResponses, pc, req, http, err, calls, exitPath,
                  completion, llmConfigs, components >>

PromptNext == CallValidateQuery \/ CallExtractResponse

PromptSpec == Init /\ [][PromptNext]_vars

----------------------------------------------------------------------------
\* The storage, the ResponseAppender and the read handler called directly,
\* in any order, on a storage that starts empty.

\* Number of direct calls of a run.
MaxCalls == 3

StoreIds == {1, 2}

StoreConfigs ==
  { DatabaseConfig("test-db", host, options) :
      host \in {"localhost", "replica"}, options \in {NilOptions, PostgresOptions} }

StoreInit ==
  /\ backend \in {"postgres", "memory"}
  /\ dbConfigs = << >>
  /\ pools = {}
  /\ orchestratorPool = 0
  /\ assistantResponses = << >>
  /\ pc = [t \in Requests |-> "new"]
  /\ req = [t \in Requests |-> NoRequest]
  /\ http = [t \in Requests |-> 0]
  /\ err = [t \in Requests |-> << >>]
  /\ calls = [t \in Requests |-> << >>]
  /\ exitPath = [t \in Requests |-> ""]
  /\ completion = [t \in Requests |-> NoCompletion]
  /\ last = NoCall
  /\ llmConfigs = << >>
  /\ NoWriters
  /\ NoPools
  /\ NoProviders

\* A direct call: it is counted and leaves the pipeline alone.
Called ==
  /\ last.n < MaxCalls
  /\ last'.n = last.n + 1
  /\ UNCHANGED << backend, pools, orchestratorPool, pc, req, http, err, calls,
                  exitPath, completion, components >>

CallSaveDatabaseConfig ==
  /\ \E config \in StoreConfigs :
       LET r == StorageSaveDatabaseConfig(backend, dbConfigs, config)
       IN /\ dbConfigs' = r.configs
          /\ last' = [op |-> "SaveDatabaseConfig", n |-> last.n + 1,
                      config |-> config, err |-> r.err]
  /\ Called
  /\ UNCHANGED << assistantResponses, llmConfigs >>

CallLoadDatabaseConfig ==
  /\ \E name \in {"test-db", "non-existent"} :
       LET r == StorageLoadDatabaseConfig(backend, dbConfigs, name)
       IN last' = [op |-> "LoadDatabaseConfig", n |-> last.n + 1, name |-> name,
                   config |-> r.config, err |-> r.err]
  /\ Called
  /\ UNCHANGED << dbConfigs, assistantResponses, llmConfigs >>

CallDeleteDatabaseConfig ==
  /\ \E name \in {"test-db"} :
       LET r == StorageDeleteDatabaseConfig(backend, dbConfigs, name)
       IN /\ dbConfigs' = r.configs
          /\ last' = [op |-> "DeleteDatabaseConfig", n |-> last.n + 1,
                      name |-> name, err |-> r.err]
  /\ Called
  /\ UNCHANGED << assistantResponses, llmConfigs >>

\* The responses saved directly: the initial response of a request, and a
\* completed one without updates.
StoreResponses(uuid) ==
  { InitialResponse(uuid, Question),
    [uuid |-> uuid, question |-> "Show revenue by region", success |-> TRUE,
     status |-> "completed", response |-> << >>] }

CallSaveAssistantResponse ==
  /\ \E uuid \in StoreIds :
       \E r \in StoreResponses(uuid) :
         /\ assistantResponses' = SaveAssistantResponse(assistantResponses, r)
         /\ last' = [op |-> "SaveAssistantResponse", n |-> last.n + 1,
                     uuid |-> uuid, response |-> r]
  /\ Called
  /\ UNCHANGED << dbConfigs, llmConfigs >>

CallAppendResponse ==
  /\ \E uuid \in StoreIds :
       /\ assistantResponses' =
            AppendResponse(assistantResponses, uuid, "step_output", << "x" >>)
       /\ last' = [op |-> "AppendResponse", n |-> last.n + 1, uuid |-> uuid,
                   err |-> AppenderError(assistantResponses, uuid)]
  /\ Called
  /\ UNCHANGED << dbConfigs, llmConfigs >>

CallUpdateStatus ==
  /\ \E uuid \in StoreIds :
       /\ assistantResponses' =
            UpdateStatus(assistantResponses, uuid, "failed", FALSE)
       /\ last' = [op |-> "UpdateStatus", n |-> last.n + 1, uuid |-> uuid,
                   err |-> AppenderError(assistantResponses, uuid)]
  /\ Called
  /\ UNCHANGED << dbConfigs, llmConfigs >>

CallLoadAssistantResponse ==
  /\ \E uuid \in StoreIds :
       last' = [op |-> "LoadAssistantResponse", n |-> last.n + 1, uuid |-> uuid,
                result |-> LoadAssistantResponse(assistantResponses, uuid)]
  /\ Called
  /\ UNCHANGED << dbConfigs, assistantResponses, llmConfigs >>

CallGetAssistantHistories ==
  /\ last' = [op |-> "GetAssistantHistories", n |-> last.n + 1,
              result |-> GetAssistantHistories(assistantResponses)]
  /\ Called
  /\ UNCHANGED << dbConfigs, assistantResponses, llmConfigs >>

CallGetAssistantResponse ==
  /\ \E id \in { PathId(TRUE, k) : k \in StoreIds } \cup { PathId(FALSE, 0) } :
       \E readOk \in (IF backend = "postgres" THEN BOOLEAN ELSE {TRUE}) :
         last' = [op |-> "GetAssistantResponse", n |-> last.n + 1, id |-> id,
                  readOk |-> readOk,
                  result |-> GetAssistantResponse(assistantResponses, id, readOk)]
  /\ Called
  /\ UNCHANGED << dbConfigs, assistantResponses, llmConfigs >>

\* The requests handed to HandleDatabases: the bodies of a POST (a complete
\* configuration, one with options, one without the type member, and
\* malformed JSON), the methods and the paths behind "/databases/".
DatabaseBodies ==
  { DatabaseBody(FALSE, "postgresql",
                 DatabaseConfig("test-db", "localhost", NilOptions)),
    DatabaseBody(FALSE, "postgresql",
                 DatabaseConfig("test-db", "replica",
                                << "map[string]interface{}", PostgresOptions[2] >>)),
    DatabaseBody(FALSE, "", DatabaseConfig("test-db", "localhost", NilOptions)),
    NoBody }

Methods == {"POST", "GET", "DELETE", "PUT", "PATCH"}

Paths == {"", "postgresql", "test-db", "non-existent"}

CallHandleDatabases ==
  /\ \E method \in Methods, path \in Paths :
       \E body \in (IF method = "POST" THEN DatabaseBodies ELSE {NoBody}) :
         LET r == HandleDatabases(backend, dbConfigs, method, path, body)
         IN /\ dbConfigs' = r.configs
            /\ last' = [op |-> "HandleDatabases", n |-> last.n + 1,
                        method |-> method, path |-> path, body |-> body,
                        code |-> r.code]
  /\ Called
  /\ UNCHANGED << assistantResponses, llmConfigs >>

\* The providers and configurations of the direct LLM configuration calls: two
\* models.LLMConfig values, and a pointer, which SaveLLMConfig does not
\* support.
StoreProviders == {"openai", "non-existent-provider"}

StoreLLMConfigs ==
  { LLMConfigValue("models.LLMConfig", "test-config", "test-key"),
    LLMConfigValue("models.LLMConfig", "second", "test-key"),
    LLMConfigValue("*models.LLMConfig", "test-config", "test-key") }

CallSaveLLMConfig ==
  /\ \E provider \in StoreProviders, config \in StoreLLMConfigs :
       LET r == StorageSaveLLMConfig(backend, llmConfigs, provider, config)
       IN /\ llmConfigs' = r.configs
          /\ last' = [op |-> "SaveLLMConfig", n |-> last.n + 1,
                      provider |-> provider, config |-> config, err |-> r.err,
                      before |-> StorageGetLLMConfigs(backend, llmConfigs, provider)]
  /\ Called
  /\ UNCHANGED << dbConfigs, assistantResponses >>

CallGetLLMConfigs ==
  /\ \E provider \in StoreProviders :
       last' = [op |-> "GetLLMConfigs", n |-> last.n + 1, provider |-> provider,
                result |-> StorageGetLLMConfigs(backend, llmConfigs, provider)]
  /\ Called
  /\ UNCHANGED << dbConfigs, assistantResponses, llmConfigs >>

CallDeleteLLMConfig ==
  /\ \E provider \in StoreProviders, name \in {"test-config", "non-existent"} :
       LET r == StorageDeleteLLMConfig(backend, llmConfigs, provider, name)
       IN /\ llmConfigs' = r.configs
          /\ last' = [op |-> "DeleteLLMConfig", n |-> last.n + 1,
                      provider |-> provider, name |-> name, err |-> r.err]
  /\ Called
  /\ UNCHANGED << dbConfigs, assistantResponses >>

StoreNext ==
  \/ CallSaveDatabaseConfig \/ CallLoadDatabaseConfig \/ CallDeleteDatabaseConfig
  \/ CallSaveAssistantResponse \/ CallAppendResponse \/ CallUpdateStatus
  \/ CallGetAssistantResponse
  \/ CallSaveLLMConfig \/ CallGetLLMConfigs \/ CallDeleteLLMConfig
  \/ CallLoadAssistantResponse \/ CallGetAssistantHistories
  \/ CallHandleDatabases

StoreSpec == StoreInit /\ [][StoreNext]_vars

----------------------------------------------------------------------------
\* Goroutines that write to one storage through ResponseAppenders, the
\* appender of their own Run or the one of another, a call being a load and
\* a save under the mutex of the appender it is made on.

Writers == Requests

Appenders == { NewResponseAppender(t) : t \in Requests }

\* Uuid 0 has no stored response.
AppenderCalls(w) ==
  { AppenderCall("AppendResponse", uuid, << w, last.n >>, "") :
      uuid \in StoreIds \cup {0} }
  \cup { AppenderCall("UpdateStatus", uuid, << >>, status) :
           uuid \in StoreIds \cup {0}, status \in {"completed", "failed"} }

AppenderInit ==
  /\ backend \in {"postgres", "memory"}
  /\ dbConfigs = << >>
  /\ pools = {}
  /\ orchestratorPool = 0
  /\ assistantResponses = [u \in StoreIds |-> InitialResponse(u, Question)]
  /\ pc = [t \in Requests |-> "new"]
  /\ req = [t \in Requests |-> NoRequest]
  /\ http = [t \in Requests |-> 0]
  /\ err = [t \in Requests |-> << >>]
  /\ calls = [t \in Requests |-> << >>]
  /\ exitPath = [t \in Requests |-> ""]
  /\ completion = [t \in Requests |-> NoCompletion]
  /\ last = NoCall
  /\ llmConfigs = << >>
  /\ mu = [a \in Appenders |-> 0]
  /\ writer \in [Writers -> { Idle(a) : a \in Appenders }]
  /\ effects = << >>
  /\ NoPools
  /\ NoProviders

InCall == { w \in Writers : writer[w].pc # "idle" }

\* ra.mu.Lock() and the load of a call, where the load fails: the call
\* returns the error and the deferred Unlock frees the mutex.
AppenderLoadFails(w) ==
  /\ writer[w].pc = "idle"
  /\ mu[writer[w].ra] = 0
  /\ last.n + Cardinality(InCall) < MaxCalls
  /\ \E call \in AppenderCalls(w) :
       /\ LoadAssistantResponse(assistantResponses, call.uuid).err # ""
       /\ last' = [op |-> call.op, n |-> last.n + 1, uuid |-> call.uuid,
                   err |-> AppenderError(assistantResponses, call.uuid)]
  /\ UNCHANGED << backend, dbConfigs, pools, orchestratorPool,
                  assistantResponses, pc, req, http, err, calls, exitPath,
                  completion, llmConfigs, components >>

\* ra.mu.Lock() and the load of a call.
AppenderLoad(w) ==
  /\ writer[w].pc = "idle"
  /\ mu[writer[w].ra] = 0
  /\ last.n + Cardinality(InCall) < MaxCalls
  /\ \E call \in AppenderCalls(w) :
       LET l == LoadAssistantResponse(assistantResponses, call.uuid)
       IN /\ l.err = ""
          /\ writer' = [writer EXCEPT ![w] = [pc |-> "loaded", ra |-> @.ra,
                                              call |-> call,
                                              response |-> l.response]]
  /\ mu' = [mu EXCEPT ![writer[w].ra] = w]
  /\ UNCHANGED << backend, dbConfigs, pools, orchestratorPool,
                  assistantResponses, pc, req, http, err, calls, exitPath,
                  completion, last, llmConfigs, effects, poolOf, sqlDBs, conn,
                  resolution >>

\* The save of a call, its return of nil and the deferred Unlock.
AppenderSave(w) ==
  /\ writer[w].pc = "loaded"
  /\ assistantResponses' =
       SaveAssistantResponse(assistantResponses,
                             Modified(writer[w].call, writer[w].response))
  /\ effects' = Append(effects, writer[w].call)
  /\ last' = [op |-> writer[w].call.op, n |-> last.n + 1,
              uuid |-> writer[w].call.uuid, err |-> << >>]
  /\ mu' = [mu EXCEPT ![writer[w].ra] = 0]
  /\ writer' = [writer EXCEPT ![w] = Idle(@.ra)]
  /\ UNCHANGED << backend, dbConfigs, pools, orchestratorPool, pc, req, http,
                  err, calls, exitPath, completion, llmConfigs, poolOf, sqlDBs,
                  conn, resolution >>

AppenderNext ==
  \E w \in Writers : AppenderLoadFails(w) \/ AppenderLoad(w) \/ AppenderSave(w)

AppenderSpec == AppenderInit /\ [][AppenderNext]_vars

----------------------------------------------------------------------------
\* Orchestrations on one Registry, followed pool by pool: each resolves a
\* configuration name (Run, step 2), holds the connector while it works and
\* closes it when Run returns; configurations come and go and the registry may
\* be closed.  No semaphore bounds the orchestrations here.

RegistryNames == {"sales_db", "ghost_db"}

RegistryInit ==
  /\ backend \in {"postgres", "memory"}
  /\ dbConfigs = << >>
  /\ pools = {}
  /\ orchestratorPool = 0
  /\ assistantResponses = << >>
  /\ pc = [t \in Requests |-> "new"]
  /\ req = [t \in Requests |-> NoRequest]
  /\ http = [t \in Requests |-> 0]
  /\ err = [t \in Requests |-> << >>]
  /\ calls = [t \in Requests |-> << >>]
  /\ exitPath = [t \in Requests |-> ""]
  /\ completion = [t \in Requests |-> NoCompletion]
  /\ last = NoCall
  /\ llmConfigs = << >>
  /\ NoWriters
  /\ NoPools
  /\ NoProviders

\* connectToDatabase of an orchestration that starts in slot t: LoadSource
\* under the registry mutex.  On an error Run returns before the defer.
Resolve(t) ==
  /\ pc[t] \in {"new", "done"}
  /\ last.n < MaxCalls
  /\ \E name \in RegistryNames, pingOk \in BOOLEAN, openOk \in BOOLEAN :
       LET r == RegistryLoadSource(poolOf, sqlDBs, DOMAIN dbConfigs, name,
                                   pingOk, openOk)
           alive == name \in DOMAIN poolOf /\ Ping(sqlDBs, poolOf[name], pingOk)
       IN /\ poolOf' = r.pools
          /\ sqlDBs' = r.sqlDBs
          /\ pools' = LoadSource(pools, DOMAIN dbConfigs, name, alive, openOk).pools
          /\ conn' = [conn EXCEPT ![t] = r.conn]
          /\ req' = [req EXCEPT ![t] = [NoRequest EXCEPT !.db = name]]
          /\ pc' = [pc EXCEPT ![t] = IF r.err = << >> THEN "connected" ELSE "done"]
          /\ last' = [op |-> "LoadSource", n |-> last.n + 1, t |-> t,
                      name |-> name,
                      ping |-> IF name \notin DOMAIN poolOf THEN "none"
                               ELSE IF alive THEN "ok" ELSE "failed",
                      steps |-> r.steps, err |-> r.err, conn |-> r.conn]
  /\ UNCHANGED << backend, dbConfigs, orchestratorPool, assistantResponses,
                  http, err, calls, exitPath, completion, llmConfigs, mu,
                  writer, effects, resolution >>

\* Run returns: the deferred db.Close().
EndRun(t) ==
  /\ pc[t] = "connected"
  /\ sqlDBs' = PostgresConnectorClose(sqlDBs, conn[t])
  /\ pc' = [pc EXCEPT ![t] = "done"]
  /\ last' = [op |-> "Close", n |-> last.n, t |-> t]
  /\ UNCHANGED << backend, dbConfigs, pools, orchestratorPool,
                  assistantResponses, req, http, err, calls, exitPath,
                  completion, llmConfigs, mu, writer, effects, poolOf, conn,
                  resolution >>

\* Registry.Close.
CloseRegistry ==
  /\ last.n < MaxCalls
  /\ sqlDBs' = RegistryClose(poolOf, sqlDBs)
  /\ last' = [op |-> "Registry.Close", n |-> last.n + 1]
  /\ UNCHANGED << backend, dbConfigs, pools, orchestratorPool,
                  assistantResponses, pc, req, http, err, calls, exitPath,
                  completion, llmConfigs, mu, writer, effects, poolOf, conn,
                  resolution >>

RegistryNext ==
  \/ \E t \in Requests : Resolve(t) \/ EndRun(t)
  \/ CloseRegistry
  \/ \E name \in RegistryNames : SaveDatabaseConfig(name) \/ DeleteDatabaseConfig(name)

RegistrySpec == RegistryInit /\ [][RegistryNext]_vars

----------------------------------------------------------------------------
\* LLM provider resolution, Provider by Provider.  The llm_configs rows are
\* created through POST /llm-configs in any order; each orchestration resolves
\* its Provider (llm.GetProvider), initializes it with the configuration the
\* request names and calls Complete on it twice.  The storage is
\* PostgresStorage: under MemoryStorage the ask handler stops at the type of
\* the loaded value (LLMConfigWrongType) and no Provider is resolved.

\* The bodies POST /llm-configs receives; the handler does not run the struct
\* validator, so an empty api_key is stored as it is.
LLMConfigInputs ==
  { [provider |-> "openai", name |-> "main", apiKey |-> "sk"],
    [provider |-> "openai", name |-> "alt", apiKey |-> "sk2"],
    [provider |-> "openai", name |-> "weak", apiKey |-> ""],
    [provider |-> "gemini", name |-> "g1", apiKey |-> "sk"] }

\* The provider and configuration names of the asks.
ProviderRequests ==
  { [NoRequest EXCEPT !.db = "sales_db", !.provider = c.provider,
                      !.config = c.name] : c \in LLMConfigInputs }
    \cup { [NoRequest EXCEPT !.db = "sales_db", !.provider = "openai",
                             !.config = "absent"] }

ProviderInit ==
  /\ backend = "postgres"
  /\ dbConfigs = << >>
  /\ pools = {}
  /\ orchestratorPool = 0
  /\ assistantResponses = << >>
  /\ pc = [t \in Requests |-> "new"]
  /\ req = [t \in Requests |-> NoRequest]
  /\ http = [t \in Requests |-> 0]
  /\ err = [t \in Requests |-> << >>]
  /\ calls = [t \in Requests |-> << >>]
  /\ exitPath = [t \in Requests |-> ""]
  /\ completion = [t \in Requests |-> NoCompletion]
  /\ last = NoCall
  /\ llmConfigs = << >>
  /\ NoWriters
  /\ NoPools
  /\ NoProviders

\* LLMManager.CreateLLMConfig: the row is inserted unless the provider has
\* one of the name (409, nothing changes).
CreateLLMConfig ==
  /\ \E c \in LLMConfigInputs :
       LET r == StorageSaveLLMConfig(backend, llmConfigs, c.provider,
                                     LLMConfigValue("models.LLMConfig", c.name,
                                                    c.apiKey))
       IN /\ llmConfigs' = r.configs
          /\ llmRows' = IF r.err = ""
                        THEN Append(llmRows, [provider |-> c.provider,
                                              name |-> c.name])
                        ELSE llmRows
  /\ UNCHANGED << backend, dbConfigs, pools, orchestratorPool,
                  assistantResponses, pc, req, http, err, calls, exitPath,
                  completion, last, mu, writer, effects, poolOf, sqlDBs, conn,
                  providers, llmProvider >>

\* The orchestration goroutine of an ask in slot t up to llm.GetProvider: the
\* handler loads the named configuration, NewOrchestrator asks the registry
\* for the Provider of the kind.
ResolveProvider(t) ==
  /\ pc[t] \in {"new", "done"}
  /\ last.n < MaxCalls
  /\ \E r \in ProviderRequests :
       LET loaded == PostgresLoadLLMConfig(llmConfigs, r.provider, r.config)
           got == RegistryGetProvider(providers,
                                      NewestFirst(llmConfigs, llmRows, r.provider),
                                      r.provider)
       IN /\ req' = [req EXCEPT ![t] = r]
          /\ IF loaded.err # ""
             THEN /\ err' = [err EXCEPT ![t] =
                               IF loaded.err = ErrConfigNotFound
                               THEN << "LLM configuration not found for provider",
                                       ErrConfigNotFound >>
                               ELSE << "Failed to load LLM configuration",
                                       loaded.err >>]
                  /\ pc' = [pc EXCEPT ![t] = "done"]
                  /\ UNCHANGED << providers, llmProvider >>
             ELSE /\ providers' = got.providers
                  /\ llmProvider' = [llmProvider EXCEPT ![t] = got.id]
                  /\ err' = [err EXCEPT ![t] =
                               IF got.err = << >> THEN << >>
                               ELSE << "Failed to create orchestrator",
                                       "failed to get LLM provider" >> \o got.err]
                  /\ pc' = [pc EXCEPT ![t] = IF got.err = << >>
                                             THEN "initialize" ELSE "done"]
  /\ last' = [op |-> "GetProvider", n |-> last.n + 1, t |-> t]
  /\ UNCHANGED << backend, dbConfigs, pools, orchestratorPool,
                  assistantResponses, http, calls, exitPath, completion,
                  llmConfigs, mu, writer, effects, poolOf, sqlDBs, conn,
                  llmRows >>

\* The configuration the ask of slot t names, as the handler loaded it.
NamedConfig(t) ==
  PostgresLoadLLMConfig(llmConfigs, req[t].provider, req[t].config).config

\* NewOrchestrator after llm.GetProvider: Initialize with the named
\* configuration on the Provider the registry returned.
InitializeProvider(t) ==
  /\ pc[t] = "initialize"
  /\ LET init == Initialize(providers, llmProvider[t], NamedConfig(t))
     IN IF req[t].provider # "openai"
        THEN /\ err' = [err EXCEPT ![t] = << "Failed to create orchestrator",
                                              "unsupported LLM provider" >>]
             /\ pc' = [pc EXCEPT ![t] = "done"]
             /\ llmProvider' = [llmProvider EXCEPT ![t] = 0]
             /\ UNCHANGED providers
        ELSE /\ providers' = init.providers
             /\ err' = [err EXCEPT ![t] =
                          IF init.err = << >> THEN << >>
                          ELSE << "Failed to create orchestrator",
                                  "failed to initialize LLM provider" >>
                                 \o init.err]
             /\ pc' = [pc EXCEPT ![t] = IF init.err = << >>
                                        THEN "generateSQLQuery" ELSE "done"]
             /\ llmProvider' = [llmProvider EXCEPT ![t] =
                                  IF init.err = << >> THEN @ ELSE 0]
  /\ UNCHANGED << backend, dbConfigs, pools, orchestratorPool,
                  assistantResponses, req, http, calls, exitPath, completion,
                  last, llmConfigs, mu, writer, effects, poolOf, sqlDBs, conn,
                  llmRows >>

\* provider.Complete of generateSQLQuery and of generateFinalResponse: the
\* request goes out with the client of the Provider the orchestration holds;
\* completion records the API key it went out with.
Complete(t) ==
  /\ pc[t] \in {"generateSQLQuery", "generateFinalResponse"}
  /\ completion' = [completion EXCEPT ![t] =
                      << providers[llmProvider[t]].config.apiKey >>]
  /\ pc' = [pc EXCEPT ![t] = IF pc[t] = "generateSQLQuery"
                             THEN "generateFinalResponse" ELSE "done"]
  /\ llmProvider' = [llmProvider EXCEPT ![t] =
                       IF pc[t] = "generateSQLQuery" THEN @ ELSE 0]
  /\ UNCHANGED << backend, dbConfigs, pools, orchestratorPool,
                  assistantResponses, req, http, err, calls, exitPath, last,
                  llmConfigs, mu, writer, effects, poolOf, sqlDBs, conn,
                  llmRows, providers >>

ProviderNext ==
  \/ CreateLLMConfig
  \/ \E t \in Requests : ResolveProvider(t) \/ InitializeProvider(t) \/ Complete(t)

ProviderSpec == ProviderInit /\ [][ProviderNext]_vars

----------------------------------------------------------------------------
\* Properties.

Accepted == DOMAIN assistantResponses
Status(t) == assistantResponses[t].status
Updates(t) == assistantResponses[t].response
OfKind(t, kind) == { i \in 1..Len(Updates(t)) : Updates(t)[i].type = kind }
Terminal(t) == Status(t) \in {"completed", "failed"}
IsPrefix(a, b) == Len(a) <= Len(b) /\ \A i \in 1..Len(a) : a[i] = b[i]
Contains(text, tok) == \E i \in 1..Len(text) : text[i] = tok
Count(seq, x) == Cardinality({ i \in 1..Len(seq) : seq[i] = x })

\* The positions between the send on orchestratorPool and the deferred receive.
GuardedSection ==
  { "loadLLMConfig", "run", "connectFailed", "handleError", "markFailed",
    "getSchema", "schemaQuery", "schemaRowsErr", "generateSQLQuery",
    "completeSQL", "executeQuery", "generateFinalResponse", "completeReport",
    "markCompleted", "release" }

Holding == { t \in Requests : pc[t] \in GuardedSection }

C2_StatusMonotonic ==
  [][\A t \in Accepted :
       assistantResponses'[t].status # Status(t)
         => /\ Status(t) = "in_progress"
            /\ assistantResponses'[t].status \in {"completed", "failed"}]_vars

C2_Witness ==
  \E t \in Accepted, u \in Accepted :
    /\ pc[t] = "done" /\ Status(t) = "completed"
    /\ pc[u] = "done" /\ Status(u) = "failed"

\* C3: in every step the stored update list of every response keeps its
\* former content as a prefix (the statement of the claim; the pre-Run failure
\* paths break it).
C3_UpdatesOnlyAppended ==
  [][\A t \in Accepted :
       IsPrefix(Updates(t), assistantResponses'[t].response)]_vars

C5_AtMostNHoldSlots ==
  /\ [](Cardinality(Holding) <= MaxConcurrentOrchestrations)
  /\ [][\A t \in Requests :
          calls'[t] # calls[t] => (t \in Holding /\ orchestratorPool >= 1)]_vars

C5_Witness ==
  /\ Cardinality(Holding) = MaxConcurrentOrchestrations
  /\ \E t \in Holding : Len(calls[t]) >= 3
  /\ \E u \in Requests : pc[u] = "acquire"

\* C6: every exit path of the guarded section frees exactly one slot: the
\* channel holds one element per task inside the section, and none once all
\* tasks have left it.
C6_SlotReleasedOnEveryExit ==
  /\ orchestratorPool = Cardinality(Holding)
  /\ (\A t \in Requests : pc[t] \in {"new", "rejected", "done"})
       => orchestratorPool = 0

C6_Witness ==
  /\ \A t \in Requests : pc[t] = "done"
  /\ orchestratorPool = 0
  /\ \E t \in Requests, u \in Requests :
       exitPath[t] = "recovered" /\ exitPath[u] = "create_failed"

\* C7: a failed response has success false and at least one error update (the
\* statement of the claim; the recovered fault breaks it).
C7_FailedHasErrorUpdate ==
  \A t \in Accepted :
    Status(t) = "failed"
      => (~assistantResponses[t].success /\ OfKind(t, "error") # {})

\* C8: a fault caught at the task boundary leaves the response as a Failed
\* transition does: error update appended, status failed, success false (the
\* statement of the claim; the recover handler appends nothing).
C8_FaultEndsAsFailedTransition ==
  \A t \in Requests :
    exitPath[t] = "recovered"
      => /\ t \in Accepted
         /\ Status(t) = "failed"
         /\ ~assistantResponses[t].success
         /\ OfKind(t, "error") # {}

\* Does the text hold no <tag>...</tag> pair, or a first pair with a blank
\* interior?
NoPayload(tag, text) ==
  LET opens == { i \in 1..Len(text) : text[i] = StartTag(tag) }
      first == CHOOSE i \in opens : \A k \in opens : i <= k
      closes == { j \in 1..Len(text) : text[j] = EndTag(tag) /\ j > first }
      close == CHOOSE j \in closes : \A k \in closes : j <= k
  IN \/ opens = {}
     \/ closes = {}
     \/ \A k \in (first + 1)..(close - 1) : text[k] = " "

\* C9: when the first completion has no <sql>...</sql> pair or a blank
\* interior, the task makes no ExecuteQuery and no second Complete call and the
\* response ends failed, success false, with an error update and without a
\* final_response update (the statement of the claim; a completion whose
\* closing delimiter precedes the opening one breaks it).
C9_NoSqlPayloadFails ==
  \A t \in Requests :
    ( /\ Count(calls[t], "Complete") = 1
      /\ completion[t] # NoCompletion
      /\ NoPayload("sql", completion[t])
      /\ pc[t] \in {"release", "done"} )
      => /\ Count(calls[t], "ExecuteQuery") = 0
         /\ t \in Accepted
         /\ Status(t) = "failed"
         /\ ~assistantResponses[t].success
         /\ OfKind(t, "error") # {}
         /\ OfKind(t, "final_response") = {}

\* The task's log reports that the database configuration could not be loaded.
ReportsMissingDbConfig(t) ==
  \E i \in OfKind(t, "error") :
    /\ Contains(Updates(t)[i].text, "failed to load database config")
    /\ Contains(Updates(t)[i].text, ErrConfigNotFound)

\* What the claim says of a task whose database configuration was not found.
EndsAsResolutionFailure(t) ==
  (pc[t] = "done" /\ t \in Accepted /\ ReportsMissingDbConfig(t))
    => /\ Status(t) = "failed"
       /\ ~assistantResponses[t].success
       /\ exitPath[t] = "failed"
       /\ Count(calls[t], "GetSchema") = 0
       /\ Count(calls[t], "Complete") = 0
       /\ Count(calls[t], "ExecuteQuery") = 0

EveryStepSucceeded(t) ==
  /\ Count(calls[t], "Complete") = 2
  /\ Count(calls[t], "ExecuteQuery") = 1
  /\ completion[t] # NoCompletion
  /\ ~ExtractResponse("markdown", completion[t]).panic
  /\ ExtractResponse("markdown", completion[t]).value # << >>

C12_OnlyValidatedQueriesRun ==
  /\ [][\A t \in Requests :
          Count(calls'[t], "ExecuteQuery") > Count(calls[t], "ExecuteQuery")
            => ValidateQuery(ExtractResponse("sql", completion[t]).value).ok]_vars
  /\ [](\A t \in Requests :
          pc[t] = "executeQuery"
            => ValidateQuery(ExtractResponse("sql", completion[t]).value).ok)

\* The words the query validator forbids, and what it means for a word to
\* occur in a text.
ForbiddenWords ==
  { << "d", "r", "o", "p" >>, << "t", "r", "u", "n", "c", "a", "t", "e" >>,
    << "d", "e", "l", "e", "t", "e" >>, << "u", "p", "d", "a", "t", "e" >>,
    << "i", "n", "s", "e", "r", "t" >>, << "a", "l", "t", "e", "r" >>,
    << "c", "r", "e", "a", "t", "e" >> }

Occurs(word, text) ==
  \E i \in 1..Len(text) : \E j \in i..Len(text) : SubSeq(text, i, j) = word

StartsWithSelect(text) ==
  /\ Len(text) >= 6
  /\ << text[1], text[2], text[3], text[4], text[5], text[6] >>
       = << "s", "e", "l", "e", "c", "t" >>

UpdatesLogQuery ==
  << "s", "e", "l", "e", "c", "t", " ", "*", " ", "f", "r", "o", "m", " ",
     "u", "p", "d", "a", "t", "e", "s", "_", "l", "o", "g" >>

ExpectedExtract(tag, text) ==
  LET opens == { i \in 1..Len(text) : text[i] = StartTag(tag) }
      first == CHOOSE i \in opens : \A k \in opens : i <= k
      closes == { j \in 1..Len(text) : text[j] = EndTag(tag) /\ j > first }
      close == CHOOSE j \in closes : \A k \in closes : j <= k
  IN IF opens = {} \/ \A j \in 1..Len(text) : text[j] # EndTag(tag)
     THEN << >>
     ELSE IF closes = {}
          THEN << >>
          ELSE TrimSpace(SubSeq(text, first + 1, close - 1))

\* C14: for every tag and text ExtractResponse returns the trimmed interior
\* of the first pair of delimiters, and the empty text when a delimiter is
\* missing (the statement of the claim; a closing delimiter in front of the
\* first pair makes the code fault).
C14_ExtractResponseFirstPair ==
  last.op = "ExtractResponse"
    => /\ ~last.result.panic
       /\ last.result.value = ExpectedExtract(last.tag, last.text)

\* The request of task t cannot be resolved: the named LLM configuration is
\* absent, the provider kind is unsupported, the loaded configuration has the
\* wrong shape, the provider cannot be initialized, or the database
\* configuration was never stored.
ResolutionFails(t) ==
  LET loaded == LoadLLMConfig(backend, req[t].provider, req[t].config)
  IN \/ loaded.err # ""
     \/ ~loaded.pointer
     \/ NewOrchestrator(req[t].provider, loaded.config) # << >>
     \/ req[t].db \notin StorableDbNames

Launched(t) == pc[t] \in GuardedSection \cup {"acquire", "done"}

\* C16: the entry of an accepted request is stored, in_progress, before the
\* goroutine is launched and before 201 is answered, and entries are never
\* removed, so the entry exists in every state after the 201; when the first
\* save fails the handler answers 500, stores nothing and launches nothing.
C16_StoredBeforeAcceptance ==
  /\ [](\A t \in Requests :
          /\ pc[t] = "saved"
               => /\ t \in Accepted /\ Status(t) = "in_progress"
                  /\ http[t] = 0 /\ calls[t] = << >>
          /\ (http[t] = 201 \/ Launched(t)) => t \in Accepted
          /\ http[t] = 500
               => t \notin Accepted /\ pc[t] = "rejected" /\ calls[t] = << >>)
  /\ [][/\ DOMAIN assistantResponses \subseteq DOMAIN assistantResponses'
        /\ \A t \in Requests :
             ((http[t] = 0 /\ http'[t] = 201) \/ (~Launched(t) /\ Launched(t)'))
               => /\ t \in Accepted
                  /\ Status(t) = "in_progress"
        /\ \A t \in Requests :
             (http[t] = 0 /\ http'[t] = 500)
               => /\ assistantResponses' = assistantResponses
                  /\ orchestratorPool' = orchestratorPool]_vars

C16_Witness ==
  \E t \in Requests, u \in Requests :
    /\ http[t] = 500 /\ t \notin Accepted
    /\ http[u] = 201 /\ pc[u] = "done" /\ u \in Accepted

\* A body that is malformed or misses a required field.
Defective(body) ==
  \/ body.malformed
  \/ body.db = ""
  \/ body.question = ""
  \/ body.provider = ""
  \/ body.config = ""

JustCalled(ops) == last'.n = last.n + 1 /\ last'.op \in ops

\* C18 as stated: GET /assistant/ask/{id} answers 404 for every id without
\* entry in the store and the stored response for every id with one, and never
\* modifies the store.
C18_GetReturnsStoredOrNotFound ==
  [][JustCalled({"GetAssistantResponse"}) =>
       /\ assistantResponses' = assistantResponses
       /\ IF last'.id.wellFormed /\ last'.id.key \in DOMAIN assistantResponses
          THEN /\ last'.result.code = 200
               /\ last'.result.body = assistantResponses[last'.id.key]
          ELSE last'.result.code = 404]_vars

\* C18 amended: a path id that is no uuid is answered 400 and a failed read
\* of the store 500; otherwise an id without entry is answered 404 and an id
\* with an entry 200 with the stored response; the store is never modified.
C18_GetReturnsStoredOrErrorCode ==
  [][JustCalled({"GetAssistantResponse"}) =>
       /\ assistantResponses' = assistantResponses
       /\ last'.result.code =
            IF ~last'.id.wellFormed THEN 400
            ELSE IF ~last'.readOk THEN 500
            ELSE IF last'.id.key \in DOMAIN assistantResponses THEN 200
            ELSE 404
       /\ last'.result.code = 200 =>
            last'.result.body = assistantResponses[last'.id.key]]_vars

\* A read answered with an entry that was created and then updated.
C18_Witness ==
  /\ last.op = "GetAssistantResponse"
  /\ last.result.code = 200
  /\ last.result.body = assistantResponses[last.id.key]
  /\ last.result.body.response # << >>

\* C19: AppendResponse and UpdateStatus called with an id without entry
\* return an error and leave the store as it was.
C19_UnknownIdLeavesStoreUnchanged ==
  [][(/\ JustCalled({"AppendResponse", "UpdateStatus"})
      /\ last'.uuid \notin DOMAIN assistantResponses) =>
       /\ last'.err # << >>
       /\ assistantResponses' = assistantResponses]_vars

\* An update refused for an id without entry while another id has one.
C19_Witness ==
  /\ last.op \in {"AppendResponse", "UpdateStatus"}
  /\ last.err = << "failed to load response", ErrResponseNotFound >>
  /\ last.uuid \notin DOMAIN assistantResponses
  /\ assistantResponses # << >>

\* C20: SaveDatabaseConfig under a stored name returns ErrConfigExists and
\* leaves what is stored unchanged; LoadDatabaseConfig returns exactly the
\* configuration saved under the name, and ErrConfigNotFound for a name never
\* saved or deleted.
C20_ConfigSaveLoadContract ==
  [][/\ (/\ JustCalled({"SaveDatabaseConfig"})
         /\ last'.config.name \in DOMAIN dbConfigs) =>
          (last'.err = ErrConfigExists /\ dbConfigs' = dbConfigs)
     /\ (/\ JustCalled({"LoadDatabaseConfig"})
         /\ last'.name \notin DOMAIN dbConfigs) =>
          last'.err = ErrConfigNotFound
     /\ (/\ JustCalled({"LoadDatabaseConfig"})
         /\ last.op = "DeleteDatabaseConfig"
         /\ last'.name = last.name) =>
          last'.err = ErrConfigNotFound
     /\ (/\ JustCalled({"LoadDatabaseConfig"})
         /\ last.op = "SaveDatabaseConfig"
         /\ last.err = ""
         /\ last'.name = last.config.name) =>
          (last'.err = "" /\ last'.config = last.config)]_vars

\* C21: a DeleteLLMConfig right after the SaveLLMConfig of the same
\* configuration, under a provider that had none, leaves GetLLMConfigs of the
\* provider empty; DeleteLLMConfig of a name that is not stored, or under a
\* provider without configurations, returns ErrConfigNotFound and changes
\* nothing; and the store never holds a provider with an empty map of
\* configurations.
C21_LLMConfigDeleteContract ==
  /\ [][/\ (/\ JustCalled({"DeleteLLMConfig"})
            /\ last.op = "SaveLLMConfig"
            /\ last.err = ""
            /\ last.before = {}
            /\ last'.provider = last.provider
            /\ last'.name = last.config.name) =>
             /\ last'.err = ""
             /\ StorageGetLLMConfigs(backend, llmConfigs', last'.provider) = {}
        /\ (/\ JustCalled({"DeleteLLMConfig"})
            /\ \/ last'.provider \notin DOMAIN llmConfigs
               \/ last'.name \notin DOMAIN llmConfigs[last'.provider]) =>
             /\ last'.err = ErrConfigNotFound
             /\ llmConfigs' = llmConfigs
        /\ (/\ JustCalled({"GetLLMConfigs"})
            /\ last.op = "DeleteLLMConfig"
            /\ last.err = ""
            /\ last'.provider = last.provider
            /\ last.provider \notin DOMAIN llmConfigs) =>
             last'.result = {}]_vars
  /\ [](\A provider \in DOMAIN llmConfigs : DOMAIN llmConfigs[provider] # {})

\* The list h holds exactly one entry per uuid of the store st, and that
\* entry is the stored value.
OneEntryPerUuid(h, st) ==
  /\ Len(h) = Cardinality(DOMAIN st)
  /\ \A u \in DOMAIN st :
       /\ Cardinality({ i \in DOMAIN h : h[i].uuid = u }) = 1
       /\ \E i \in DOMAIN h : h[i] = st[u]

\* C22: LoadAssistantResponse after SaveAssistantResponse(r) returns r's
\* uuid, question and status, and ErrResponseNotFound for a uuid that was not
\* saved; GetAssistantHistories returns exactly one entry per saved uuid,
\* holding the value saved last under it.
C22_AssistantStorageContract ==
  [][/\ JustCalled({"SaveAssistantResponse"}) =>
          LET r == last'.response
              l == LoadAssistantResponse(assistantResponses', r.uuid)
          IN /\ l.err = ""
             /\ l.response.uuid = r.uuid
             /\ l.response.question = r.question
             /\ l.response.status = r.status
             /\ DOMAIN assistantResponses' = DOMAIN assistantResponses \cup {r.uuid}
             /\ \A u \in DOMAIN assistantResponses' :
                  assistantResponses'[u] = IF u = r.uuid THEN r
                                           ELSE assistantResponses[u]
     /\ JustCalled({"LoadAssistantResponse"}) =>
          IF last'.uuid \in DOMAIN assistantResponses
          THEN /\ last'.result.err = ""
               /\ last'.result.response = assistantResponses[last'.uuid]
          ELSE last'.result.err = ErrResponseNotFound
     /\ (/\ JustCalled({"LoadAssistantResponse"})
         /\ last.op = "SaveAssistantResponse"
         /\ last'.uuid = last.uuid) =>
          last'.result.response = last.response
     /\ JustCalled({"GetAssistantHistories"}) =>
          OneEntryPerUuid(last'.result, assistantResponses)]_vars

\* Two responses saved under different uuids, one of them completed, and
\* then listed.
C22_Witness ==
  /\ last.op = "GetAssistantHistories"
  /\ Len(last.result) = 2
  /\ \E i \in DOMAIN last.result : last.result[i].status = "completed"

\* A request body that is a complete database configuration.
CompleteConfig(body) ==
  /\ ~body.malformed
  /\ body.type \in {"postgresql", "mysql", "mongodb"}
  /\ body.config.name # ""
  /\ body.config.host # ""

\* C23: through HandleDatabases the POST of a configuration answers 201 when
\* its name is not stored and 409 when it is; GET of a stored name answers
\* 200 and of an unknown name 404; DELETE of a stored name answers 200 and
\* removes it, DELETE of an unknown name answers 404.
C23_DatabaseHandlerCodes ==
  [][JustCalled({"HandleDatabases"}) =>
       /\ (last'.method = "POST" /\ CompleteConfig(last'.body)) =>
            last'.code = IF last'.body.config.name \in DOMAIN dbConfigs
                         THEN 409 ELSE 201
       /\ (last'.method = "GET" /\ last'.path # "") =>
            last'.code = IF last'.path \in DOMAIN dbConfigs THEN 200 ELSE 404
       /\ (last'.method = "DELETE" /\ last'.path # "") =>
            /\ last'.code = IF last'.path \in DOMAIN dbConfigs THEN 200 ELSE 404
            /\ last'.path \notin DOMAIN dbConfigs'
            /\ HandleDatabases(backend, dbConfigs', "GET", last'.path, NoBody).code
                 = 404]_vars

\* C24: HandleDatabases answers 405 to every PUT and PATCH, on /databases and
\* on a sub-path, and leaves the configuration store unchanged.
C24_PutPatchNotAllowed ==
  [][(JustCalled({"HandleDatabases"}) /\ last'.method \in {"PUT", "PATCH"}) =>
       /\ last'.code = 405
       /\ dbConfigs' = dbConfigs]_vars

\* The collaborator calls of a request that runs to the end, in order.
PipelineOrder ==
  << "LoadLLMConfig", "GetProvider", "LoadSource", "GetSchema", "Complete",
     "ExecuteQuery", "Complete" >>

HasUpdate(t, text) == \E i \in 1..Len(Updates(t)) : Updates(t)[i].text = text

\* A call is added to the calls of t.
Calls(t) == Len(calls'[t]) > Len(calls[t])

\* The order of the calls, and what has succeeded when the call number k of
\* PipelineOrder is made.
OrderedAndGated ==
  /\ [](\A t \in Requests : IsPrefix(calls[t], PipelineOrder))
  /\ [][\A t \in Requests :
          (Calls(t) /\ Len(calls[t]) >= 2) =>
            /\ t \in Accepted
            /\ Status(t) = "in_progress"
            /\ OfKind(t, "error") = {}
            /\ exitPath[t] = ""
            /\ err[t] = << >>
            /\ Len(calls[t]) >= 4 =>
                 HasUpdate(t, << "Schema retrieval completed" >>)
            /\ Len(calls[t]) >= 5 =>
                 /\ ~ExtractResponse("sql", completion[t]).panic
                 /\ HasUpdate(t, ExtractResponse("sql", completion[t]).value)
            /\ Len(calls[t]) >= 6 =>
                 HasUpdate(t, << "Query executed successfully" >>)]_vars
  /\ [](\A t \in Accepted :
          Status(t) = "completed" =>
            /\ calls[t] = PipelineOrder
            /\ OfKind(t, "error") = {}
            /\ OfKind(t, "final_response") # {})

\* A step of Run of request t that fails.
RunFails(t) ==
  \/ RunStartFails(t) \/ GetSchemaQueryFails(t) \/ GetSchemaRowsErr(t)
  \/ GenerateSQLCompleteFails(t) \/ GenerateSQLFaults(t) \/ GenerateSQLEmpty(t)
  \/ ExecuteQueryFails(t)
  \/ GenerateFinalCompleteFails(t) \/ GenerateFinalFaults(t)
  \/ GenerateFinalEmpty(t)

\* The positions of Run at which a collaborator has answered and Run
\* decides how to go on, up to the report generation.
DecisionPoints ==
  {"run", "schemaQuery", "schemaRowsErr", "completeSQL", "executeQuery",
   "completeReport"}

Failing(t) ==
  \/ pc[t] \in {"connectFailed", "handleError", "markFailed"}
  \/ exitPath[t] \notin {"", "completed"}
  \/ t \in Accepted /\ OfKind(t, "error") # {}

\* C26: each of LoadSource, GetSchema, ExecuteQuery and the two Complete is
\* called at most once in an orchestration, and after the first failure no
\* further call is made for the request.
C26_NoRetry ==
  /\ [](\A t \in Requests :
          /\ \A c \in {"LoadSource", "GetSchema", "ExecuteQuery"} :
               Count(calls[t], c) <= 1
          /\ Count(calls[t], "Complete") <= 2
          /\ Count(calls[t], "Complete") = 2 => Count(calls[t], "ExecuteQuery") = 1)
  /\ [][\A t \in Requests : Failing(t) => calls'[t] = calls[t]]_vars

\* A request that failed at the query execution, with its four pipeline calls.
C26_Witness ==
  \E t \in Accepted :
    /\ Status(t) = "failed"
    /\ calls[t] = SubSeq(PipelineOrder, 1, 6)
    /\ pc[t] = "done"

\* C27: appends and status updates made concurrently through the
\* ResponseAppender lose no mutation, whichever appender they are made on: the
\* updates of every stored response are the initial one followed by the appends
\* that returned nil, each once and in the order they took effect, its status is
\* the last one written, and no two writers are between load and save at once.
AppendsOf(u) ==
  LET Appended(c) == c.op = "AppendResponse" /\ c.uuid = u
      a == SelectSeq(effects, Appended)
  IN [i \in 1..Len(a) |-> Update("step_output", a[i].text)]

LastStatusOf(u) ==
  LET Written(c) == c.op = "UpdateStatus" /\ c.uuid = u
      s == SelectSeq(effects, Written)
  IN IF s = << >> THEN "in_progress" ELSE s[Len(s)].status

C27_NoMutationLost ==
  /\ \A u \in DOMAIN assistantResponses :
       /\ assistantResponses[u].response =
            InitialResponse(u, Question).response \o AppendsOf(u)
       /\ assistantResponses[u].status = LastStatusOf(u)
  /\ Cardinality(InCall) <= 1

\* C28: LoadSource for a name whose stored pool answers the ping returns a
\* connector on that very pool, after the ping alone: no configuration is
\* loaded, no pool is opened, the map and the pools stay as they are, so the
\* orchestrations that hold the registered pool of the name are joined on it.
\* In every state a *sql.DB stands under at most one name of the map.
Registered == { poolOf[name] : name \in DOMAIN poolOf }

C28_LivePoolIsReused ==
  /\ [][JustCalled({"LoadSource"}) /\ last'.ping = "ok" =>
          /\ last'.err = << >>
          /\ last'.conn = poolOf[last'.name]
          /\ last'.steps = << "Ping" >>
          /\ poolOf' = poolOf /\ sqlDBs' = sqlDBs
          /\ \A u \in Requests :
               pc[u] = "connected" /\ conn[u] = poolOf[last'.name] =>
                 conn'[last'.t] = conn'[u]]_vars
  /\ [](/\ Registered \subseteq DOMAIN sqlDBs
        /\ \A n, m \in DOMAIN poolOf : poolOf[n] = poolOf[m] => n = m)

\* Two orchestrations hold a connector on the same registered pool, the
\* second after a LoadSource that found it alive while its configuration was
\* no longer stored.
C28_Witness ==
  /\ last.op = "LoadSource" /\ last.ping = "ok"
  /\ last.name \notin DOMAIN dbConfigs
  /\ \E u \in Requests \ {last.t} :
       /\ pc[u] = "connected" /\ pc[last.t] = "connected"
       /\ conn[u] = conn[last.t]
       /\ poolOf[last.name] = conn[u]

\* C29: when the stored pool of a name fails its ping, LoadSource takes it out
\* of the map and makes a new one: the connector it returns is on the new,
\* open pool, which is the one the map holds; when the configuration is gone
\* or the first ping of the new pool fails it returns an error and the map
\* holds no pool for the name.  A pool that left the map never enters it again
\* and no LoadSource returns it.
Opened == DOMAIN sqlDBs

C29_DeadPoolIsReplaced ==
  /\ [][JustCalled({"LoadSource"}) /\ last'.ping = "failed" =>
          LET name == last'.name
              dead == poolOf[name]
          IN /\ dead \notin { poolOf'[n] : n \in DOMAIN poolOf' }
             /\ last'.conn # dead
             /\ last'.err = << >> =>
                  /\ last'.conn \notin Opened
                  /\ name \in DOMAIN poolOf' /\ poolOf'[name] = last'.conn
                  /\ sqlDBs'[last'.conn] = "open"
             /\ last'.err # << >> =>
                  /\ last'.conn = 0
                  /\ name \notin DOMAIN poolOf'
                  /\ \/ name \notin DOMAIN dbConfigs
                     \/ last'.steps = << "Ping", "LoadDatabaseConfig", "sql.Open" >>]_vars
  /\ [][\A db \in Opened \ Registered :
          /\ db \notin { poolOf'[n] : n \in DOMAIN poolOf' }
          /\ JustCalled({"LoadSource"}) => last'.conn # db]_vars

\* A LoadSource found the stored pool dead and made a new one, which the map
\* holds, while an earlier orchestration still holds the dead one.
C29_Witness ==
  /\ last.op = "LoadSource" /\ last.ping = "failed" /\ last.err = << >>
  /\ poolOf[last.name] = last.conn
  /\ \E u \in Requests \ {last.t} :
       /\ pc[u] = "connected" /\ req[u].db = last.name
       /\ conn[u] \notin Registered \cup {0}

\* C30: the end of an orchestration closes no pool: the connector Close that
\* Run defers leaves the map and every *sql.DB as they are, whoever else holds
\* the pool, and a registered pool that is open stays open in every step but
\* Registry.Close.
C30_RunEndLeavesPoolOpen ==
  /\ [][(\E t \in Requests : pc[t] = "connected" /\ pc'[t] = "done") =>
          poolOf' = poolOf /\ sqlDBs' = sqlDBs]_vars
  /\ [][\A db \in Registered :
          sqlDBs[db] = "open" /\ sqlDBs'[db] = "closed" =>
            last'.op = "Registry.Close"]_vars

\* An orchestration has ended and closed its connector while another one
\* holds a connector on the same pool, which is open and registered.
C30_Witness ==
  /\ last.op = "Close"
  /\ pc[last.t] = "done"
  /\ \E u \in Requests \ {last.t} :
       /\ pc[u] = "connected" /\ conn[u] = conn[last.t]
       /\ req[u].db \in DOMAIN poolOf /\ poolOf[req[u].db] = conn[u]
       /\ sqlDBs[conn[u]] = "open"

\* C32: the log of a completed run holds a step_output update of the schema
\* fetch, of the SQL generation, of the query execution and of the report
\* generation, in this order and before the final_response update; the log of
\* a failed run holds a step_output update of every step that succeeded, which
\* are the steps after which Run made a further call.
StepOutputs(t, step) ==
  { i \in OfKind(t, "step_output") :
      CASE step = "schema" ->
             Updates(t)[i].text \in {<< "Fetching database schema..." >>,
                                     << "Schema retrieval completed" >>}
        [] step = "sql" ->
             \/ Updates(t)[i].text = << "Generating SQL query... please wait" >>
             \/ /\ i > 1
                /\ Updates(t)[i - 1].text =
                     << "Generating SQL query... please wait" >>
        [] step = "execute" ->
             Updates(t)[i].text = << "Query executed successfully" >>
        [] OTHER -> Updates(t)[i].text = << "Generating report..." >> }

C33_SuccessFalseIffFailed ==
  /\ [](\A t \in Accepted :
          assistantResponses[t].success <=> Status(t) # "failed")
  /\ [][\A t \in Accepted' \ Accepted :
          assistantResponses'[t].success /\ Status(t)' = "in_progress"]_vars

\* A response that failed in Run and one that is completed.
C33_Witness ==
  \E t, u \in Accepted :
    /\ Status(t) = "failed" /\ exitPath[t] = "failed"
    /\ ~assistantResponses[t].success
    /\ Status(u) = "completed" /\ assistantResponses[u].success

\* C35: the question of a stored response is the question of the request
\* that created it, in every state and on every path of the background task,
\* the failures before the Orchestrator exists included.
C35_QuestionNeverChanges ==
  \A t \in Accepted : assistantResponses[t].question = req[t].question

\* C36: the log of a failed response holds exactly one update of kind error,
\* whichever step failed.
C36_ExactlyOneErrorUpdate ==
  \A t \in Accepted :
    Status(t) = "failed" /\ exitPath[t] = "failed" =>
      Cardinality(OfKind(t, "error")) = 1

\* C37: once the status of a response is completed or failed its updates
\* stay as they are: the last update is appended before the terminal status
\* is written.
C37_LogFrozenWhenTerminal ==
  [][\A t \in Accepted : Terminal(t) => Updates(t)' = Updates(t)]_vars

\* A completed response whose last update is the final_response, and a failed
\* one whose last update is the error, both after the task has ended.
C37_Witness ==
  \E t, u \in Accepted :
    /\ Status(t) = "completed" /\ pc[t] = "done"
    /\ Updates(t)[Len(Updates(t))].type = "final_response"
    /\ Status(u) = "failed" /\ pc[u] = "done"
    /\ Updates(u)[Len(Updates(u))].type = "error"

\* C34: ExtractResponse is total: for every tag and text it returns a text
\* without a fault, and the empty text when the first closing delimiter stands
\* before the first opening one.
CloseBeforeOpen(tag, text) ==
  /\ Index(text, StartTag(tag)) # -1
  /\ Index(text, EndTag(tag)) # -1
  /\ Index(text, EndTag(tag)) < Index(text, StartTag(tag))

C34_ExtractResponseTotal ==
  last.op = "ExtractResponse"
    => /\ ~last.result.panic
       /\ CloseBeforeOpen(last.tag, last.text) => last.result.value = << >>

\* C38: orchestrations that resolve one name at the same time get one pool:
\* a LoadSource call opens at most one *sql.DB, and none unless the name has
\* no pool or its pool failed the ping; the pool stored under a name is
\* replaced or removed only by a LoadSource for that name whose ping failed;
\* so while every ping succeeds the orchestrations of a name hold one pool.
C38_OnePoolPerNameUnderConcurrency ==
  /\ [][/\ Len(sqlDBs') <= Len(sqlDBs) + 1
        /\ Len(sqlDBs') > Len(sqlDBs) =>
             JustCalled({"LoadSource"}) /\ last'.ping \in {"none", "failed"}
        /\ \A name \in DOMAIN poolOf :
             (name \notin DOMAIN poolOf' \/ poolOf'[name] # poolOf[name]) =>
               /\ JustCalled({"LoadSource"})
               /\ last'.name = name /\ last'.ping = "failed"]_vars
  /\ [](Len(sqlDBs) = Cardinality(DOMAIN poolOf) =>
          \A t, u \in Requests :
            (pc[t] = "connected" /\ pc[u] = "connected"
               /\ req[t].db = req[u].db) => conn[t] = conn[u])

\* Two orchestrations hold connectors for one name at the same time and a
\* single *sql.DB was ever opened.
C38_Witness ==
  /\ Len(sqlDBs) = 1
  /\ \E t, u \in Requests :
       /\ t # u /\ pc[t] = "connected" /\ pc[u] = "connected"
       /\ req[t].db = req[u].db
       /\ conn[t] = 1 /\ conn[u] = 1

\* C39: a LoadSource for a name whose pool Registry.Close has closed does not
\* return a connector on the closed pool: the ping fails, the pool leaves the
\* map, and the call returns a connector on a pool it opened or an error; no
\* LoadSource returns a connector on a closed pool.
C39_ClosedPoolIsNotReturned ==
  [][JustCalled({"LoadSource"}) =>
       /\ last'.err = << >> => sqlDBs'[last'.conn] = "open"
       /\ (last'.name \in DOMAIN poolOf
             /\ sqlDBs[poolOf[last'.name]] = "closed") =>
            /\ last'.ping = "failed"
            /\ last'.conn # poolOf[last'.name]
            /\ poolOf[last'.name] \notin { poolOf'[n] : n \in DOMAIN poolOf' }
            /\ last'.err = << >> => last'.conn \notin Opened
            /\ last'.err # << >> => last'.conn = 0]_vars

\* After Registry.Close an orchestration still holds the closed pool, and a
\* later LoadSource for its name has returned a connector on a new, open pool.
C39_Witness ==
  /\ last.op = "LoadSource" /\ last.ping = "failed" /\ last.err = << >>
  /\ sqlDBs[last.conn] = "open"
  /\ \E u \in Requests \ {last.t} :
       /\ pc[u] = "connected" /\ req[u].db = last.name
       /\ sqlDBs[conn[u]] = "closed"

\* The orchestrations that hold a Provider.
HoldsProvider == { t \in Requests : llmProvider[t] # 0 }

\* C31: every resolution of an LLM provider returns a Provider made in that
\* call, no two orchestrations ever hold the same Provider, and a step of one
\* orchestration (its GetProvider, its Initialize, its Complete) leaves the
\* config of the Provider every other orchestration holds as it was.
C31_EveryResolutionMakesItsOwnProvider ==
  [][/\ \A t \in Requests :
          (pc[t] \in {"new", "done"} /\ llmProvider'[t] # 0)
            => /\ llmProvider'[t] \notin 1..Len(providers)
               /\ llmProvider'[t] \in 1..Len(providers')
     /\ \A t \in Requests : \A u \in Requests \ {t} :
          (llmProvider'[t] # 0 /\ llmProvider'[u] # 0)
            => llmProvider'[t] # llmProvider'[u]
     /\ \A u \in HoldsProvider :
          pc'[u] = pc[u] => /\ llmProvider'[u] = llmProvider[u]
                            /\ providers'[llmProvider[u]] = providers[llmProvider[u]]]_vars

\* C31 witness: two orchestrations are past NewOrchestrator at the same time,
\* each with a Provider initialized with another configuration.
C31_Witness ==
  \E t \in Requests : \E u \in Requests \ {t} :
     /\ pc[t] = "generateFinalResponse"
     /\ pc[u] \in {"generateSQLQuery", "generateFinalResponse"}
     /\ llmProvider[t] # 0 /\ llmProvider[u] # 0
     /\ providers[llmProvider[t]].config.name = "main"
     /\ providers[llmProvider[u]].config.name = "alt"
     /\ completion[t] = << "sk" >>

\* The named configuration of slot t is stored for provider "openai" and
\* passes Validate.
ValidNamedConfig(r) ==
  /\ r.provider = "openai"
  /\ PostgresLoadLLMConfig(llmConfigs, r.provider, r.config).err = ""
  /\ Validate(PostgresLoadLLMConfig(llmConfigs, r.provider, r.config).config) = ""

\* C40: whether the LLM provider of an ask is resolved depends on the provider
\* kind and the named configuration alone: with provider "openai" and a
\* stored named configuration that passes Validate, llm.GetProvider and the
\* Initialize of NewOrchestrator succeed whatever other configurations the
\* kind has, and both Complete calls go out with the named configuration.
C40_ResolutionDependsOnNamedConfigOnly ==
  [][\A t \in Requests :
       /\ (pc[t] \in {"new", "done"} /\ pc'[t] # pc[t] /\ ValidNamedConfig(req'[t]))
            => /\ pc'[t] = "initialize"
               /\ err'[t] = << >>
       /\ (pc[t] = "initialize" /\ pc'[t] # pc[t] /\ ValidNamedConfig(req[t]))
            => pc'[t] = "generateSQLQuery"
       /\ (pc[t] \in {"generateSQLQuery", "generateFinalResponse"} /\ pc'[t] # pc[t])
            => completion'[t] = << NamedConfig(t).apiKey >>]_vars
====
